---- MODULE Spec2Model ----
(***************************************************************************)
(* A model of the basenames tool: the record verification library          *)
(* (verifyBasenameRecords and its helpers), the subname node derivation    *)
(* (calculateSubnameNode) that the scripts, the libraries and the          *)
(* registration component each carry a copy of, the validation library,    *)
(* the Query, Check Availability and Register components, the              *)
(* registration script and the secure deployment wrapper.                  *)
(*                                                                         *)
(* Strings that the code only compares or passes on (addresses, record     *)
(* values, error messages, record keys) are TLA+ strings.  Names and       *)
(* labels, which the code splits and hashes, are sequences of              *)
(* one-character strings.  The JavaScript values null and undefined are    *)
(* the reserved strings Null and Undefined, which no address, record       *)
(* value or message of the model equals.                                   *)
(***************************************************************************)
EXTENDS Integers, Sequences, FiniteSets, TLC

\* ------------------------------------------------------------------------
\* Bounds of the model
\* ------------------------------------------------------------------------

\* How many contract reads of one verifyBasenameRecords call may fail.
MaxFailures == 2

\* The longest label the node derivation is applied to.
MaxLabelLen == 3

\* The longest run of digits of a phone number handed to validateRecord.
MaxDigits == 16

\* The most entries of an object handed to validateRecords.
MaxEntries == 2

\* How many edits are made to the fields of the registration form.
MaxEdits == 2

\* How many contract reads may fail when one name is verified twice.
MaxPairFailures == 1

\* The most INT and TERM signals sent to one run of the deployment wrapper.
MaxSignals == 1

\* The most verifications one registration form has started when its
\* Register button is clicked.
MaxVerifications == 1

\* The most register transactions sent from one form while its price is
\* watched.
MaxSends == 1

\* ------------------------------------------------------------------------
\* JavaScript values
\* ------------------------------------------------------------------------

Null == "null"

Undefined == "undefined"

ZERO_ADDRESS == "0x0000000000000000000000000000000000000000"

\* Truthiness of a string-or-absent value: null, undefined and '' are falsy.
Truthy(v) == v \notin {Null, Undefined, ""}

\* Math.round(num / den * 100) for 0 <= num <= den, den > 0.  The quotient
\* 100 * num / den is never within a rounding error of a half (den is 17),
\* so rounding half up on the exact quotient is what the double arithmetic
\* yields.
MathFloorPct(num, den) == (100 * num) \div den

MathRoundPct(num, den) == (2 * 100 * num + den) \div (2 * den)

\* ------------------------------------------------------------------------
\* The record schema
\* ------------------------------------------------------------------------

GLOBAL_KEYS ==
  << "avatar", "description", "display", "email", "keywords",
     "mail", "notice", "location", "phone", "url" >>

SERVICE_KEYS ==
  << "com.github", "com.peepeth", "com.linkedin", "com.twitter",
     "io.keybase", "org.telegram" >>

ADDRESS_KEY == "addr"

STANDARD_ENS_KEYS == <<ADDRESS_KEY>> \o GLOBAL_KEYS \o SERVICE_KEYS

Range(s) == { s[n] : n \in 1..Len(s) }

\* STANDARD_ENS_KEYS.filter(key => key !== 'addr')
textRecordKeys == SelectSeq(STANDARD_ENS_KEYS, LAMBDA key : key # "addr")

\* Writing records[key] = r on a JavaScript object.
Put(obj, key, r) ==
  [ k \in (DOMAIN obj) \cup {key} |-> IF k = key THEN r ELSE obj[k] ]

EmptyObject == [ k \in {} |-> k ]

\* ------------------------------------------------------------------------
\* Byte strings and hashing
\*
\* A byte string is a sequence of chunks; a chunk is one byte <<n>> or the
\* 32-byte digest <<"keccak256", preimage>> of a byte string.  Two digests
\* are equal exactly when their preimages are (the hash is collision free),
\* and concatenation of byte strings is concatenation of sequences.
\* ------------------------------------------------------------------------

CharCode(c) ==
  CASE c = "a" -> 97  [] c = "b" -> 98  [] c = "e" -> 101 [] c = "h" -> 104
    [] c = "l" -> 108 [] c = "s" -> 115 [] c = "t" -> 116 [] c = "x" -> 120
    [] c = "A" -> 65  [] c = "B" -> 66  [] c = "L" -> 76
    [] c = "0" -> 48  [] c = "1" -> 49  [] c = "6" -> 54
    [] c = "." -> 46  [] c = " " -> 32

HexDigits == { "0", "1", "6", "a", "b", "e", "A", "B" }

HexValue(c) ==
  CASE c = "0" -> 0 [] c = "1" -> 1 [] c = "6" -> 6
    [] c \in {"a", "A"} -> 10 [] c \in {"b", "B"} -> 11 [] c = "e" -> 14

\* isHex(value): /^0x[0-9a-fA-F]*$/
isHex(s) ==
  /\ Len(s) >= 2
  /\ s[1] = "0"
  /\ s[2] = "x"
  /\ \A n \in 3..Len(s) : s[n] \in HexDigits

\* hexToBytes: the digits after 0x, left-padded to an even count, in pairs.
hexToBytes(s) ==
  LET digits == SubSeq(s, 3, Len(s))
      padded == IF Len(digits) % 2 = 1 THEN <<"0">> \o digits ELSE digits
  IN  [ n \in 1..(Len(padded) \div 2) |->
          << 16 * HexValue(padded[2 * n - 1]) + HexValue(padded[2 * n]) >> ]

\* stringToBytes: the UTF-8 encoding (one byte per character of the model).
stringToBytes(s) == [ n \in 1..Len(s) |-> << CharCode(s[n]) >> ]

\* toBytes(value) on a string: a hex string is decoded, any other encoded.
toBytes(s) == IF isHex(s) THEN hexToBytes(s) ELSE stringToBytes(s)

keccak256(bytes) == << <<"keccak256", bytes>> >>

\* encodePacked(['bytes32', 'bytes32'], [a, b])
encodePacked(a, b) == a \o b

Zero32 == [ n \in 1..32 |-> <<0>> ]

\* fullName.split('.')
RECURSIVE split(_)
split(s) ==
  IF \A n \in 1..Len(s) : s[n] # "."
  THEN << s >>
  ELSE LET d == CHOOSE n \in 1..Len(s) :
                  /\ s[n] = "."
                  /\ \A m \in 1..(n - 1) : s[m] # "."
       IN  << SubSeq(s, 1, d - 1) >> \o split(SubSeq(s, d + 1, Len(s)))

\* namehash(name): the hierarchical ENS name hash.
RECURSIVE namehashLabels(_)
namehashLabels(labels) ==
  IF labels = << >>
  THEN Zero32
  ELSE keccak256(encodePacked(namehashLabels(Tail(labels)),
                              keccak256(stringToBytes(Head(labels)))))

namehash(name) == IF name = << >> THEN Zero32 ELSE namehashLabels(split(name))

PARENT_DOMAIN == << "b", "a", "s", "e", "t", "e", "s", "t", ".", "e", "t", "h" >>

PARENT_NODE == namehash(PARENT_DOMAIN)

\* ------------------------------------------------------------------------
\* Subname node derivation: one definition per copy in the repository
\* ------------------------------------------------------------------------

\* lib/verify-basename-records.ts
calculateSubnameNode(label, rootNode) ==
  LET labelHash == keccak256(toBytes(label))
  IN  keccak256(encodePacked(rootNode, labelHash))

\* basename-scripts/register-basename.ts
calculateSubnameNode_register(label, rootNode) ==
  LET labelHash == keccak256(toBytes(label))
  IN  keccak256(encodePacked(rootNode, labelHash))

\* lib/query-basenames.ts
calculateSubnameNode_query(label, rootNode) ==
  LET labelHash == keccak256(toBytes(label))
  IN  keccak256(encodePacked(rootNode, labelHash))

\* components/RegisterBasename.tsx
calculateSubnameNode_component(label, rootNode) ==
  LET labelHash == keccak256(toBytes(label))
  IN  keccak256(encodePacked(rootNode, labelHash))

\* components/RegisterBasename.tsx, the second copy of the component
calculateSubnameNode_component2(label, rootNode) ==
  LET labelHash == keccak256(toBytes(label))
  IN  keccak256(encodePacked(rootNode, labelHash))

\* basename-scripts/check-basename-available.ts
calculateSubnameNode_check(label, rootNode) ==
  LET labelHash == keccak256(toBytes(label))
  IN  keccak256(encodePacked(rootNode, labelHash))

\* the query script
calculateSubnameNode_queryScript(label, rootNode) ==
  LET labelHash == keccak256(toBytes(label))
  IN  keccak256(encodePacked(rootNode, labelHash))

\* extractLabel that returns the name whole.
extractLabelWhole(fullName) == fullName

\* extractLabel(fullName): the part before the first dot.
extractLabel(fullName) ==
  LET parts == split(fullName)
  IN  IF Len(parts) = 0 THEN fullName ELSE parts[1]

\* normalize(name) of viem/ens on the characters of the model: upper-case
\* letters are folded to lower case, a space is a disallowed character and
\* an empty label inside a non-empty name is an error.
LowerCase(c) ==
  CASE c = "A" -> "a" [] c = "B" -> "b" [] c = "L" -> "l" [] OTHER -> c

normalizeThrows(name) ==
  \/ \E n \in 1..Len(name) : name[n] = " "
  \/ /\ name # << >>
     /\ \E n \in 1..Len(split(name)) : split(name)[n] = << >>

normalize(name) == [ n \in 1..Len(name) |-> LowerCase(name[n]) ]

\* ------------------------------------------------------------------------
\* The chain and the read client
\* ------------------------------------------------------------------------

REGISTRY == "0x1493b2567056c2181630115660963E13A8E32735"

RESOLVER == "0x85C87e548091f204C2d0350b39ce1874f02197c6"

OwnerAddress == "0x00000000000000000000000000000000000A11CE"

WalletAddress == "0x0000000000000000000000000000000000000B0B"

TextKeys == Range(textRecordKeys)

\* What the registry and the resolver hold for the queried node.
UnsetKeysOfPartial == { "mail", "notice", "location", "com.peepeth", "io.keybase" }

ChainProfiles ==
  { [ owner |-> ZERO_ADDRESS, resolver |-> ZERO_ADDRESS, addr |-> ZERO_ADDRESS,
      text |-> [ k \in TextKeys |-> "" ] ],
    [ owner |-> OwnerAddress, resolver |-> ZERO_ADDRESS, addr |-> ZERO_ADDRESS,
      text |-> [ k \in TextKeys |-> "" ] ],
    [ owner |-> OwnerAddress, resolver |-> RESOLVER, addr |-> ZERO_ADDRESS,
      text |-> [ k \in TextKeys |-> "" ] ],
    [ owner |-> OwnerAddress, resolver |-> RESOLVER, addr |-> Undefined,
      text |-> [ k \in TextKeys |-> IF k = "email" THEN "al@example.org" ELSE "" ] ],
    [ owner |-> OwnerAddress, resolver |-> RESOLVER, addr |-> WalletAddress,
      text |-> [ k \in TextKeys |->
                  IF k \in UnsetKeysOfPartial
                  THEN (IF k = "notice" THEN Undefined ELSE "")
                  ELSE "value of " \o k ] ],
    [ owner |-> OwnerAddress, resolver |-> RESOLVER, addr |-> WalletAddress,
      text |-> [ k \in TextKeys |-> "value of " \o k ] ] }

\* What a failed readContract throws: an Error with a message, or a value
\* that is no Error.
ThrownValues ==
  { [ isError |-> TRUE, message |-> "execution reverted" ],
    [ isError |-> FALSE, message |-> Null ] }

Returned(v) == [ ok |-> TRUE, value |-> v, isError |-> FALSE, message |-> Null ]

Threw(e) == [ ok |-> FALSE, value |-> Null, isError |-> e.isError, message |-> e.message ]

\* A publicClient.readContract request.
ReadContract(address, functionName, args) ==
  [ address |-> address, functionName |-> functionName, args |-> args ]

\* What the contract returns to a request that is served.
ContractValue(ch, call) ==
  CASE call.functionName = "owner" -> ch.owner
    [] call.functionName = "resolver" -> ch.resolver
    [] call.functionName = "addr" -> ch.addr
    [] call.functionName = "text" -> ch.text[call.args[2]]

FailureCount(rs) == Cardinality({ n \in 1..Len(rs) : ~rs[n].ok })

\* The outcomes of awaiting a request: the contract's value, or a failure
\* of the call while the bound on failures is not used up.
Outcomes(ch, call, rs) ==
  { Returned(ContractValue(ch, call)) }
    \cup (IF FailureCount(rs) < MaxFailures
          THEN { Threw(e) : e \in ThrownValues }
          ELSE {})

\* ------------------------------------------------------------------------
\* verifyBasenameRecords
\* ------------------------------------------------------------------------

VARIABLES
  chain,            \* what the registry and resolver hold for the node
  basename,         \* the argument of the call
  pc,               \* where the call is: start, the lookup awaited, done, thrown
  normalizedName,
  node,
  owner,
  resolverAddress,
  addressRecord,
  records,
  idx,              \* position of the for-of loop in textRecordKeys
  calls,            \* the readContract requests issued, in order
  replies,          \* the outcome of each request awaited so far
  result            \* the VerificationResult returned

verifyVars ==
  << chain, basename, pc, normalizedName, node, owner, resolverAddress,
     addressRecord, records, idx, calls, replies, result >>

\* The node derivation applied to one label and one parent node.
VARIABLES
  label,            \* the label argument
  rootNode,         \* the parent node argument
  derived           \* the node each copy of calculateSubnameNode returned

nodeVars == << label, rootNode, derived >>

\* One call of an exported function of the validation library.
VARIABLES
  callee,           \* the function called
  args,             \* its arguments
  ret               \* what it returned; Null while the call has not run

libVars == << callee, args, ret >>

\* The calls of verifyBasenameRecords that have ended, oldest first: for
\* each its argument, how it ended, its node, the replies it got and what
\* it returned.
VARIABLES finished

\* The QueryBasename component and the queryBasename call it awaits: the
\* component's state (basename, loading, result, error; result is << >> for
\* null and << data >> otherwise), where the call is (pc), and the call's
\* locals.
VARIABLES query

\* The RegisterBasename component: its useState values (verificationResult
\* is << >> for null and << result >> otherwise), the wallet it is given,
\* where handleRegister is (pc), the last alert shown, the number of edits
\* made to the form, the names handed to verifyBasenameRecords, the status
\* of the receipts that the waits of the running attempt returned, and the
\* subnameNode of the last handleSetRecords.
VARIABLES register

\* A run of the registration script's registerBasenameWithRecords: its
\* arguments and environment, where it is (pc), its locals, the contract
\* calls it has made (oldest first) and how it ended.
VARIABLES script

\* A run of the secure deployment wrapper: where the shell is (pc), whether
\* it is inside the cleanup function, the files it sees, and what it knows
\* about how it must end.
VARIABLES wrapper

\* The name field and the price effect of the registration form: the
\* field, the registerPrice state, the price fetches still in flight and
\* the register transactions sent.
VARIABLES pricing

\* The CheckAvailability component: its useState values (result is << >>
\* for null and << data >> otherwise) and where handleCheck is (pc).
VARIABLES check

appVars == << verifyVars, nodeVars, libVars, finished, query, register >>

toolVars == << script, wrapper, pricing, check >>

vars == << appVars, toolVars >>

\* What a step of verifyBasenameRecords leaves alone.
outsideVerify == << nodeVars, libVars, finished, query, register, toolVars >>

\* What a call of calculateSubnameNode leaves alone.
outsideNode == << verifyVars, libVars, finished, query, register, toolVars >>

\* What a call of the validation library leaves alone.
outsideLib == << verifyVars, nodeVars, finished, query, register, toolVars >>

\* What the Query tab leaves alone.
outsideQuery == << verifyVars, nodeVars, libVars, finished, register, toolVars >>

\* What the registration form leaves alone.
outsideRegister == << nodeVars, libVars, finished, query, toolVars >>

EmptyRecord == [ status |-> "empty", value |-> Null ]

AllEmptyRecords == [ k \in Range(STANDARD_ENS_KEYS) |-> EmptyRecord ]

\* An all-empty result that keeps the owner read from the registry.
createEmptyResultKeepingOwner(name, nd) ==
  [ basename |-> name, normalizedName |-> name, node |-> nd,
    owner |-> owner, resolver |-> Null,
    records |-> AllEmptyRecords, addressRecord |-> Null,
    summary |-> [ set |-> 0, empty |-> Len(STANDARD_ENS_KEYS), error |-> 0,
                  total |-> Len(STANDARD_ENS_KEYS), percentage |-> 0 ] ]

createEmptyResult(name, nd) ==
  [ basename |-> name, normalizedName |-> name, node |-> nd,
    owner |-> Null, resolver |-> Null,
    records |-> AllEmptyRecords, addressRecord |-> Null,
    summary |-> [ set |-> 0, empty |-> Len(STANDARD_ENS_KEYS), error |-> 0,
                  total |-> Len(STANDARD_ENS_KEYS), percentage |-> 0 ] ]

\* A result for a name without a resolver that drops the owner.
createResultWithOwnerDropped(name, nd, own, res) ==
  [ basename |-> name, normalizedName |-> name, node |-> nd,
    owner |-> Null, resolver |-> res,
    records |-> AllEmptyRecords, addressRecord |-> Null,
    summary |-> [ set |-> 0, empty |-> Len(STANDARD_ENS_KEYS), error |-> 0,
                  total |-> Len(STANDARD_ENS_KEYS), percentage |-> 0 ] ]

createResultWithOwner(name, nd, own, res) ==
  [ basename |-> name, normalizedName |-> name, node |-> nd,
    owner |-> own, resolver |-> res,
    records |-> AllEmptyRecords, addressRecord |-> Null,
    summary |-> [ set |-> 0, empty |-> Len(STANDARD_ENS_KEYS), error |-> 0,
                  total |-> Len(STANDARD_ENS_KEYS), percentage |-> 0 ] ]

\* The address kept from the addr lookup, the zero address included.
addressOfReplyAny(out) ==
  IF out.ok /\ Truthy(out.value)
  THEN out.value
  ELSE Null

\* The address kept from the addr lookup: non-zero, else null.
addressOfReply(out) ==
  IF out.ok /\ Truthy(out.value) /\ out.value # ZERO_ADDRESS
  THEN out.value
  ELSE Null

\* records['addr'] from addressRecord
addrRecord(address) ==
  IF Truthy(address)
  THEN [ status |-> "set", value |-> address ]
  ELSE [ status |-> "empty", value |-> Null ]

\* The text record, with a failed lookup reported as empty.
textRecordLenient(out) ==
  IF out.ok /\ Truthy(out.value)
  THEN [ status |-> "set", value |-> out.value ]
  ELSE [ status |-> "empty", value |-> Null ]

\* records[key] from the outcome of the text lookup of key
textRecord(out) ==
  IF out.ok
  THEN LET hasValue == Truthy(out.value)
       IN  [ status |-> IF hasValue THEN "set" ELSE "empty",
             value |-> IF hasValue THEN out.value ELSE Null ]
  ELSE [ status |-> "error", value |-> Null,
         error |-> IF out.isError THEN out.message ELSE "Unknown error" ]

CountStatus(recs, st) == Cardinality({ k \in DOMAIN recs : recs[k].status = st })

\* A summary whose counts leave the addr record out.
summaryWithoutAddr(recs) ==
  LET texts == [ k \in (DOMAIN recs) \ {"addr"} |-> recs[k] ]
      setCount == CountStatus(texts, "set")
      totalCount == Cardinality(DOMAIN recs)
  IN  [ set |-> setCount,
        empty |-> CountStatus(texts, "empty"),
        error |-> CountStatus(texts, "error"),
        total |-> totalCount,
        percentage |-> IF totalCount > 0 THEN MathRoundPct(setCount, totalCount) ELSE 0 ]

summary(recs) ==
  LET setCount == CountStatus(recs, "set")
      emptyCount == CountStatus(recs, "empty")
      errorCount == CountStatus(recs, "error")
      totalCount == Cardinality(DOMAIN recs)
  IN  [ set |-> setCount, empty |-> emptyCount, error |-> errorCount,
        total |-> totalCount,
        percentage |-> IF totalCount > 0 THEN MathRoundPct(setCount, totalCount) ELSE 0 ]

Basenames ==
  { << "a", "l" >>,
    << "a", "l", ".", "b", "a", "s", "e", "t", "e", "s", "t", ".", "e", "t", "h" >>,
    << "a", " ", "l" >> }

VerifyInit ==
  /\ chain \in ChainProfiles
  /\ basename \in Basenames
  /\ pc = "start"
  /\ normalizedName = << >>
  /\ node = << >>
  /\ owner = Null
  /\ resolverAddress = Null
  /\ addressRecord = Null
  /\ records = EmptyObject
  /\ idx = 0
  /\ calls = << >>
  /\ replies = << >>
  /\ result = Null

\* The state of a component in which no verification is under way.
VerifyIdle ==
  /\ chain = [ owner |-> ZERO_ADDRESS, resolver |-> ZERO_ADDRESS, addr |-> ZERO_ADDRESS,
               text |-> [ k \in TextKeys |-> "" ] ]
  /\ basename = << >>
  /\ pc = "idle"
  /\ normalizedName = << >>
  /\ node = << >>
  /\ owner = Null
  /\ resolverAddress = Null
  /\ addressRecord = Null
  /\ records = EmptyObject
  /\ idx = 0
  /\ calls = << >>
  /\ replies = << >>
  /\ result = Null

\* Lines 119-149: normalize the name, derive the node, issue the owner lookup.
\* normalize is outside every try block: its exception leaves the call.
Call ==
  /\ pc = "start"
  /\ IF normalizeThrows(basename)
     THEN /\ pc' = "thrown"
          /\ UNCHANGED << normalizedName, node, calls >>
     ELSE /\ normalizedName' = normalize(basename)
          /\ node' = calculateSubnameNode(extractLabel(normalizedName'), PARENT_NODE)
          /\ calls' = << ReadContract(REGISTRY, "owner", << node' >>) >>
          /\ pc' = "owner"
  /\ UNCHANGED << chain, basename, owner, resolverAddress, addressRecord,
                  records, idx, replies, result >>
  /\ UNCHANGED outsideVerify

\* The owner lookup settles, with no check for the zero address.
OwnerSettlesNoZeroCheck ==
  /\ pc = "owner"
  /\ \E out \in Outcomes(chain, calls[Len(calls)], replies) :
       /\ replies' = Append(replies, out)
       /\ IF ~out.ok
          THEN /\ result' = createEmptyResult(normalizedName, node)
               /\ pc' = "done"
               /\ UNCHANGED << owner, calls >>
          ELSE /\ owner' = out.value
               /\ calls' = Append(calls, ReadContract(REGISTRY, "resolver", << node >>))
               /\ pc' = "resolver"
               /\ UNCHANGED result
  /\ UNCHANGED << chain, basename, normalizedName, node, resolverAddress,
                  addressRecord, records, idx >>
  /\ UNCHANGED outsideVerify

\* Lines 144-162 and 168-171: the owner lookup settles.
OwnerSettles ==
  /\ pc = "owner"
  /\ \E out \in Outcomes(chain, calls[Len(calls)], replies) :
       /\ replies' = Append(replies, out)
       /\ IF ~out.ok
          THEN /\ result' = createEmptyResult(normalizedName, node)
               /\ pc' = "done"
               /\ UNCHANGED << owner, calls >>
          ELSE /\ owner' = out.value
               /\ IF out.value = ZERO_ADDRESS
                  THEN /\ result' = createEmptyResult(normalizedName, node)
                       /\ pc' = "done"
                       /\ UNCHANGED calls
                  ELSE /\ calls' = Append(calls, ReadContract(REGISTRY, "resolver", << node >>))
                       /\ pc' = "resolver"
                       /\ UNCHANGED result
  /\ UNCHANGED << chain, basename, normalizedName, node, resolverAddress,
                  addressRecord, records, idx >>
  /\ UNCHANGED outsideVerify

\* Lines 157-181: the resolver lookup settles; on a resolver the addr lookup
\* is issued.
ResolverSettles ==
  /\ pc = "resolver"
  /\ \E out \in Outcomes(chain, calls[Len(calls)], replies) :
       /\ replies' = Append(replies, out)
       /\ IF ~out.ok
          THEN /\ result' = createEmptyResult(normalizedName, node)
               /\ pc' = "done"
               /\ UNCHANGED << resolverAddress, calls >>
          ELSE /\ resolverAddress' = out.value
               /\ IF out.value = ZERO_ADDRESS
                  THEN /\ result' = createResultWithOwner(normalizedName, node, owner, Null)
                       /\ pc' = "done"
                       /\ UNCHANGED calls
                  ELSE /\ calls' = Append(calls, ReadContract(out.value, "addr", << node >>))
                       /\ pc' = "addr"
                       /\ UNCHANGED result
  /\ UNCHANGED << chain, basename, normalizedName, node, owner,
                  addressRecord, records, idx >>
  /\ UNCHANGED outsideVerify

\* Lines 176-203: the addr lookup settles; the first text lookup is issued.
AddrSettles ==
  /\ pc = "addr"
  /\ \E out \in Outcomes(chain, calls[Len(calls)], replies) :
       /\ replies' = Append(replies, out)
       /\ addressRecord' = addressOfReply(out)
  /\ records' = EmptyObject
  /\ idx' = 1
  /\ calls' = Append(calls, ReadContract(resolverAddress, "text",
                                         << node, textRecordKeys[1] >>))
  /\ pc' = "text"
  /\ UNCHANGED << chain, basename, normalizedName, node, owner,
                  resolverAddress, result >>
  /\ UNCHANGED outsideVerify

\* Lines 238-253: the result of the full path, from the records collected.
fullResult(recs) ==
  [ basename |-> basename, normalizedName |-> normalizedName, node |-> node,
    owner |-> owner, resolver |-> resolverAddress,
    records |-> recs, addressRecord |-> addressRecord,
    summary |-> summary(recs) ]

\* A text lookup whose failure leaves the call instead of being recorded.
TextSettlesUncaught ==
  /\ pc = "text"
  /\ \E out \in Outcomes(chain, calls[Len(calls)], replies) :
       LET key == textRecordKeys[idx]
           recs == Put(records, key, textRecord(out))
       IN  /\ replies' = Append(replies, out)
           /\ IF ~out.ok
              THEN /\ pc' = "thrown"
                   /\ UNCHANGED << records, idx, calls, result >>
              ELSE IF idx < Len(textRecordKeys)
              THEN /\ records' = recs
                   /\ idx' = idx + 1
                   /\ calls' = Append(calls, ReadContract(resolverAddress, "text",
                                         << node, textRecordKeys[idx + 1] >>))
                   /\ UNCHANGED << pc, result >>
              ELSE /\ records' = Put(recs, "addr", addrRecord(addressRecord))
                   /\ result' = fullResult(records')
                   /\ pc' = "done"
                   /\ UNCHANGED << idx, calls >>
  /\ UNCHANGED << chain, basename, normalizedName, node, owner,
                  resolverAddress, addressRecord >>
  /\ UNCHANGED outsideVerify

\* A text lookup that is issued again after it failed.
TextSettlesRetrying ==
  /\ pc = "text"
  /\ \E out \in Outcomes(chain, calls[Len(calls)], replies) :
       LET key == textRecordKeys[idx]
           recs == Put(records, key, textRecord(out))
       IN  /\ replies' = Append(replies, out)
           /\ IF ~out.ok
              THEN /\ calls' = Append(calls, calls[Len(calls)])
                   /\ UNCHANGED << records, idx, pc, result >>
              ELSE IF idx < Len(textRecordKeys)
              THEN /\ records' = recs
                   /\ idx' = idx + 1
                   /\ calls' = Append(calls, ReadContract(resolverAddress, "text",
                                         << node, textRecordKeys[idx + 1] >>))
                   /\ UNCHANGED << pc, result >>
              ELSE /\ records' = Put(recs, "addr", addrRecord(addressRecord))
                   /\ result' = fullResult(records')
                   /\ pc' = "done"
                   /\ UNCHANGED << idx, calls >>
  /\ UNCHANGED << chain, basename, normalizedName, node, owner,
                  resolverAddress, addressRecord >>
  /\ UNCHANGED outsideVerify

\* Lines 196-253: the text lookup of textRecordKeys[idx] settles and its
\* record is written; the next key's lookup is issued, or, after the last
\* key, the addr record is added, the summary computed and the result
\* returned.
TextSettles ==
  /\ pc = "text"
  /\ \E out \in Outcomes(chain, calls[Len(calls)], replies) :
       LET key == textRecordKeys[idx]
           recs == Put(records, key, textRecord(out))
       IN  /\ replies' = Append(replies, out)
           /\ IF idx < Len(textRecordKeys)
              THEN /\ records' = recs
                   /\ idx' = idx + 1
                   /\ calls' = Append(calls, ReadContract(resolverAddress, "text",
                                         << node, textRecordKeys[idx + 1] >>))
                   /\ UNCHANGED << pc, result >>
              ELSE /\ records' = Put(recs, "addr", addrRecord(addressRecord))
                   /\ result' = fullResult(records')
                   /\ pc' = "done"
                   /\ UNCHANGED << idx, calls >>
  /\ UNCHANGED << chain, basename, normalizedName, node, owner,
                  resolverAddress, addressRecord >>
  /\ UNCHANGED outsideVerify

VerifyNext ==
  \/ Call
  \/ OwnerSettles
  \/ ResolverSettles
  \/ AddrSettles
  \/ TextSettles

\* ------------------------------------------------------------------------
\* calculateSubnameNode applied by each of its copies
\* ------------------------------------------------------------------------

Alphabet == { "a", "A", "0", "x" }

Labels == UNION { [ 1..n -> Alphabet ] : n \in 1..MaxLabelLen }

RootNodes == { PARENT_NODE, namehash(<< "e", "t", "h" >>) }

NodeInit ==
  /\ label \in Labels
  /\ rootNode \in RootNodes
  /\ derived = EmptyObject

NodeIdle ==
  /\ label = << >>
  /\ rootNode = << >>
  /\ derived = EmptyObject

Derive(copy, nd) ==
  /\ label # << >>
  /\ copy \notin DOMAIN derived
  /\ derived' = Put(derived, copy, nd)
  /\ UNCHANGED << label, rootNode >>
  /\ UNCHANGED outsideNode

DeriveVerify == Derive("verify", calculateSubnameNode(label, rootNode))

DeriveRegister == Derive("register", calculateSubnameNode_register(label, rootNode))

DeriveQuery == Derive("query", calculateSubnameNode_query(label, rootNode))

DeriveComponent == Derive("component", calculateSubnameNode_component(label, rootNode))

DeriveComponent2 == Derive("component2", calculateSubnameNode_component2(label, rootNode))

DeriveCheck == Derive("check", calculateSubnameNode_check(label, rootNode))

DeriveQueryScript == Derive("queryScript", calculateSubnameNode_queryScript(label, rootNode))

NodeNext ==
  \/ DeriveVerify
  \/ DeriveRegister
  \/ DeriveQuery
  \/ DeriveComponent
  \/ DeriveComponent2
  \/ DeriveCheck
  \/ DeriveQueryScript

\* ------------------------------------------------------------------------
\* Characters, String.prototype.trim and the validation patterns
\*
\* A record value is a sequence of one-character strings.
\* ------------------------------------------------------------------------

LowerLetters ==
  << "a", "b", "c", "d", "e", "f", "g", "h", "i", "j", "k", "l", "m",
     "n", "o", "p", "q", "r", "s", "t", "u", "v", "w", "x", "y", "z" >>

UpperLetters ==
  << "A", "B", "C", "D", "E", "F", "G", "H", "I", "J", "K", "L", "M",
     "N", "O", "P", "Q", "R", "S", "T", "U", "V", "W", "X", "Y", "Z" >>

\* \d
Digits == { "0", "1", "2", "3", "4", "5", "6", "7", "8", "9" }

\* [a-zA-Z0-9]
AlphaNumeric == Range(LowerLetters) \cup Range(UpperLetters) \cup Digits

\* The line terminators, which the pattern character . does not match.
LineTerminators == { "\n", "\r" }

\* \s, and what trim() strips: white space and line terminators.
WhiteSpace == { " ", "\t" } \cup LineTerminators

\* The case folding of a pattern with the i flag.
Canonicalize(c) ==
  IF c \in Range(UpperLetters)
  THEN LowerLetters[CHOOSE n \in 1..Len(UpperLetters) : UpperLetters[n] = c]
  ELSE c

\* value.trim()
trim(value) ==
  LET kept == { n \in 1..Len(value) : value[n] \notin WhiteSpace }
  IN  IF kept = {} THEN << >>
      ELSE SubSeq(value,
                  CHOOSE n \in kept : \A m \in kept : n <= m,
                  CHOOSE n \in kept : \A m \in kept : m <= n)

\* s begins with the characters of prefix, compared as they are.
startsWith(s, prefix) ==
  /\ Len(prefix) <= Len(s)
  /\ \A n \in 1..Len(prefix) : s[n] = prefix[n]

\* s begins with the characters of prefix, letters compared without case.
startsWithIgnoringCase(s, prefix) ==
  /\ Len(prefix) <= Len(s)
  /\ \A n \in 1..Len(prefix) : Canonicalize(s[n]) = Canonicalize(prefix[n])

\* /^[^\s@]+@[^\s@]+\.[^\s@]+$/
emailPattern(s) ==
  \E at \in 1..Len(s), dot \in 1..Len(s) :
    /\ 1 < at /\ at + 1 < dot /\ dot < Len(s)
    /\ s[at] = "@"
    /\ s[dot] = "."
    /\ \A n \in (1..Len(s)) \ {at} : s[n] \notin WhiteSpace \cup {"@"}

\* The phone pattern with \d in place of [1-9].
phonePatternAnyFirstDigit(s) ==
  /\ Len(s) >= 3
  /\ Len(s) <= 16
  /\ s[1] = "+"
  /\ \A n \in 2..Len(s) : s[n] \in Digits

\* /^\+[1-9]\d{1,14}$/
phonePattern(s) ==
  /\ Len(s) >= 3
  /\ Len(s) <= 16
  /\ s[1] = "+"
  /\ s[2] \in Digits \ {"0"}
  /\ \A n \in 3..Len(s) : s[n] \in Digits

\* The URL pattern without the i flag.
urlPatternCaseSensitive(s) ==
  \E scheme \in { << "h", "t", "t", "p", ":", "/", "/" >>,
                  << "h", "t", "t", "p", "s", ":", "/", "/" >> } :
    /\ startsWith(s, scheme)
    /\ Len(s) > Len(scheme)
    /\ s[Len(scheme) + 1] \notin LineTerminators

\* /^https?:\/\/.+/i
urlPattern(s) ==
  \E scheme \in { << "h", "t", "t", "p", ":", "/", "/" >>,
                  << "h", "t", "t", "p", "s", ":", "/", "/" >> } :
    /\ startsWithIgnoringCase(s, scheme)
    /\ Len(s) > Len(scheme)
    /\ s[Len(scheme) + 1] \notin LineTerminators

\* /^0x[a-fA-F0-9]{40}$/
addrPattern(s) ==
  /\ Len(s) = 42
  /\ s[1] = "0"
  /\ s[2] = "x"
  /\ \A n \in 3..Len(s) :
       s[n] \in Digits \cup { "a", "b", "c", "d", "e", "f",
                             "A", "B", "C", "D", "E", "F" }

\* /^[a-zA-Z0-9_]+$/
handlePattern(s) ==
  /\ Len(s) >= 1
  /\ \A n \in 1..Len(s) : s[n] \in AlphaNumeric \cup {"_"}

\* /^[a-zA-Z0-9]([a-zA-Z0-9-])*$/
githubPattern(s) ==
  /\ Len(s) >= 1
  /\ s[1] \in AlphaNumeric
  /\ \A n \in 2..Len(s) : s[n] \in AlphaNumeric \cup {"-"}

\* pattern.test(s), a pattern being named by the key it first belongs to.
test(pattern, s) ==
  CASE pattern = "email"       -> emailPattern(s)
    [] pattern = "phone"       -> phonePattern(s)
    [] pattern = "url"         -> urlPattern(s)
    [] pattern = "addr"        -> addrPattern(s)
    [] pattern = "com.twitter" -> handlePattern(s)
    [] pattern = "com.github"  -> githubPattern(s)

VALIDATION_RULES ==
  "email" :> [ pattern |-> "email", error |->
      "Invalid email format. Must be a valid email address." ]
  @@ "phone" :> [ pattern |-> "phone", error |->
      "Phone must be in E.164 format (e.g., +1234567890). Must start with + and country code." ]
  @@ "url" :> [ pattern |-> "url", error |->
      "URL must start with http:// or https://" ]
  @@ "avatar" :> [ pattern |-> "url", error |->
      "Avatar URL must start with http:// or https://" ]
  @@ "addr" :> [ pattern |-> "addr", error |->
      "Invalid Ethereum address format. Must be 0x followed by 40 hexadecimal characters." ]
  @@ "com.twitter" :> [ pattern |-> "com.twitter", error |->
      "Twitter username must contain only letters, numbers, and underscores (no @ symbol, no spaces)." ]
  @@ "org.telegram" :> [ pattern |-> "com.twitter", error |->
      "Telegram username must contain only letters, numbers, and underscores (no @ symbol, no spaces)." ]
  @@ "com.github" :> [ pattern |-> "com.github", error |->
      "GitHub username must start with alphanumeric character and can contain hyphens (no spaces, no @ symbol)." ]

FREE_TEXT_FIELDS ==
  << "description", "display", "keywords", "mail", "notice", "location",
     "com.peepeth", "com.linkedin", "io.keybase" >>

\* Names every object inherits from Object.prototype: VALIDATION_RULES[key]
\* is then a function, which is truthy and has no pattern, and calling
\* test on its pattern throws.
InheritedKeys == { "constructor" }

TypeError == [ threw |-> "TypeError" ]

Throws(r) == "threw" \in DOMAIN r

\* validateRecord without its first test.
validateRecordNoBlankTest(key, value) ==
  IF key \in Range(FREE_TEXT_FIELDS) THEN [ valid |-> TRUE ]
  ELSE IF key \in InheritedKeys THEN TypeError
  ELSE IF key \notin DOMAIN VALIDATION_RULES THEN [ valid |-> TRUE ]
  ELSE LET rule == VALIDATION_RULES[key]
       IN  IF test(rule.pattern, trim(value)) THEN [ valid |-> TRUE ]
           ELSE [ valid |-> FALSE, error |-> rule.error ]

validateRecord(key, value) ==
  IF value = << >> \/ trim(value) = << >> THEN [ valid |-> TRUE ]
  ELSE IF key \in Range(FREE_TEXT_FIELDS) THEN [ valid |-> TRUE ]
  ELSE IF key \in InheritedKeys THEN TypeError
  ELSE IF key \notin DOMAIN VALIDATION_RULES THEN [ valid |-> TRUE ]
  ELSE LET rule == VALIDATION_RULES[key]
       IN  IF test(rule.pattern, trim(value)) THEN [ valid |-> TRUE ]
           ELSE [ valid |-> FALSE, error |-> rule.error ]

\* The for-of loop of validateRecords over Object.entries(records), an
\* object being the sequence of its entries << key, value >>.
RECURSIVE collectErrorsFirstOnly(_, _)
collectErrorsFirstOnly(entries, errors) ==
  IF entries = << >> THEN [ errors |-> errors ]
  ELSE LET key == entries[1][1]
           res == validateRecord(key, entries[1][2])
       IN  IF Throws(res) THEN res
           ELSE IF ~res.valid /\ Truthy(res.error)
                THEN [ errors |-> Put(errors, key, res.error) ]
                ELSE collectErrorsFirstOnly(Tail(entries), errors)

RECURSIVE collectErrors(_, _)
collectErrors(entries, errors) ==
  IF entries = << >> THEN [ errors |-> errors ]
  ELSE LET key == entries[1][1]
           res == validateRecord(key, entries[1][2])
       IN  IF Throws(res) THEN res
           ELSE collectErrors(Tail(entries),
                              IF ~res.valid /\ Truthy(res.error)
                              THEN Put(errors, key, res.error)
                              ELSE errors)

validateRecords(recordsArg) ==
  LET loop == collectErrors(recordsArg, EmptyObject)
  IN  IF Throws(loop) THEN loop
      ELSE [ valid |-> Cardinality(DOMAIN loop.errors) = 0,
             errors |-> loop.errors ]

\* ------------------------------------------------------------------------
\* Record categories
\* ------------------------------------------------------------------------

\* The characters of a record key.
Chars(key) ==
  CASE key = "addr"         -> << "a", "d", "d", "r" >>
    [] key = "avatar"       -> << "a", "v", "a", "t", "a", "r" >>
    [] key = "description"  ->
         << "d", "e", "s", "c", "r", "i", "p", "t", "i", "o", "n" >>
    [] key = "display"      -> << "d", "i", "s", "p", "l", "a", "y" >>
    [] key = "email"        -> << "e", "m", "a", "i", "l" >>
    [] key = "keywords"     -> << "k", "e", "y", "w", "o", "r", "d", "s" >>
    [] key = "mail"         -> << "m", "a", "i", "l" >>
    [] key = "notice"       -> << "n", "o", "t", "i", "c", "e" >>
    [] key = "location"     -> << "l", "o", "c", "a", "t", "i", "o", "n" >>
    [] key = "phone"        -> << "p", "h", "o", "n", "e" >>
    [] key = "url"          -> << "u", "r", "l" >>
    [] key = "com.github"   ->
         << "c", "o", "m", ".", "g", "i", "t", "h", "u", "b" >>
    [] key = "com.peepeth"  ->
         << "c", "o", "m", ".", "p", "e", "e", "p", "e", "t", "h" >>
    [] key = "com.linkedin" ->
         << "c", "o", "m", ".", "l", "i", "n", "k", "e", "d", "i", "n" >>
    [] key = "com.twitter"  ->
         << "c", "o", "m", ".", "t", "w", "i", "t", "t", "e", "r" >>
    [] key = "io.keybase"   ->
         << "i", "o", ".", "k", "e", "y", "b", "a", "s", "e" >>
    [] key = "org.telegram" ->
         << "o", "r", "g", ".", "t", "e", "l", "e", "g", "r", "a", "m" >>
    [] key = "com.discord"  ->
         << "c", "o", "m", ".", "d", "i", "s", "c", "o", "r", "d" >>
    [] key = "nickname"     -> << "n", "i", "c", "k", "n", "a", "m", "e" >>
    [] key = "constructor"  ->
         << "c", "o", "n", "s", "t", "r", "u", "c", "t", "o", "r" >>

\* getRecordCategory without its second test.
getRecordCategoryNoContact(key) ==
  IF key = "avatar" \/ key = "display" \/ key = "keywords"
  THEN "profile"
  ELSE IF \/ startsWith(Chars(key), << "c", "o", "m", "." >>)
          \/ startsWith(Chars(key), << "o", "r", "g", "." >>)
          \/ startsWith(Chars(key), << "i", "o", "." >>)
  THEN "social"
  ELSE "other"

getRecordCategory(key) ==
  IF key = "avatar" \/ key = "display" \/ key = "keywords"
  THEN "profile"
  ELSE IF key = "email" \/ key = "phone" \/ key = "location"
  THEN "contact"
  ELSE IF \/ startsWith(Chars(key), << "c", "o", "m", "." >>)
          \/ startsWith(Chars(key), << "o", "r", "g", "." >>)
          \/ startsWith(Chars(key), << "i", "o", "." >>)
  THEN "social"
  ELSE "other"

\* The loop of getRecordsByCategory that does not skip addr.
RECURSIVE pushByCategoryWithAddr(_, _)
pushByCategoryWithAddr(keys, categories) ==
  IF keys = << >> THEN categories
  ELSE LET key == keys[1]
           category == getRecordCategory(key)
       IN  pushByCategoryWithAddr(
             Tail(keys),
             [ categories EXCEPT ![category] = Append(@, key) ])

\* The for-of loop of getRecordsByCategory over the keys.
RECURSIVE pushByCategory(_, _)
pushByCategory(keys, categories) ==
  IF keys = << >> THEN categories
  ELSE LET key == keys[1]
           category == getRecordCategory(key)
       IN  pushByCategory(
             Tail(keys),
             IF key = "addr" THEN categories
             ELSE [ categories EXCEPT ![category] = Append(@, key) ])

getRecordsByCategory ==
  pushByCategory(STANDARD_ENS_KEYS,
                 [ profile |-> << >>, contact |-> << >>, social |-> << >>,
                   other |-> << >> ])

\* ------------------------------------------------------------------------
\* Calls of the validation library
\* ------------------------------------------------------------------------

\* c repeated n times.
Repeat(c, n) == [ m \in 1..n |-> c ]

\* The values validateRecord is called with: blank ones, phone numbers,
\* URLs, email addresses, Ethereum addresses and user names, well formed
\* and not.
ValidationValues ==
  { << >>, << " " >>, << " ", "\t" >>, << "\n" >> }
    \cup { << "+" >> \o Repeat("1", n) : n \in 0..MaxDigits }
    \cup { << "+", "0", "1", "2" >>,
           << "1", "2", "3" >>,
           << "+", "1", "a" >>,
           << "+", "1", " ", "2" >>,
           << " ", "+", "1", "2", " " >>,
           << "+", "9", "0", "\n" >> }
    \cup
  { << "h", "t", "t", "p", ":", "/", "/", "x" >>,
    << "h", "t", "t", "p", "s", ":", "/", "/", "x" >>,
    << "h", "t", "t", "p", ":", "/", "/" >>,
    << "h", "t", "t", "p", "s", ":", "/", "/" >>,
    << "H", "T", "T", "P", ":", "/", "/", "x" >>,
    << "H", "t", "t", "p", "s", ":", "/", "/", "x" >>,
    << " ", "h", "t", "t", "p", ":", "/", "/", "x", " " >>,
    << "h", "t", "t", "p", ":", "/", "/", " " >>,
    << "h", "t", "t", "p", ":", "/", "/", "\n", "x" >>,
    << "f", "t", "p", ":", "/", "/", "x" >>,
    << "h", "t", "t", "p", ":", "/", "x" >>,
    << "h", "t", "t", "p", "s", "s", ":", "/", "/", "x" >>,
    << "x", "h", "t", "t", "p", ":", "/", "/", "x" >> }
    \cup
  { << "a", "@", "b", ".", "c" >>,
    << "a", "@", "b", ".", "c", ".", "d" >>,
    << "a", "@", "b" >>,
    << "@", "b", ".", "c" >>,
    << "a", "@", "b", "." >>,
    << "a", "@", "@", "b", ".", "c" >>,
    << "a", " ", "b", "@", "c", ".", "d" >> }
    \cup
  { << "0", "x" >> \o Repeat("a", 40),
    << "0", "x" >> \o Repeat("F", 39) \o << "0" >>,
    << "0", "x" >> \o Repeat("a", 39),
    << "0", "x" >> \o Repeat("a", 41),
    << "0", "X" >> \o Repeat("a", 40),
    << "0", "x" >> \o Repeat("a", 39) \o << "g" >> }
    \cup
  { << "a", "_", "1" >>, << "a", "-", "1" >>, << "-", "a" >>, << "_", "a" >>,
    << "@", "a", "l" >>, << "a", " ", "l" >> }

\* The keys the functions are called with: the standard ones, two that are
\* not standard and one that every object inherits.
CalledKeys ==
  Range(STANDARD_ENS_KEYS) \cup { "nickname", "com.discord" } \cup InheritedKeys

\* The objects validateRecords is called with, as sequences of entries.
RecordObjects ==
  LET keys == { "email", "phone", "url", "display", "nickname", "constructor" }
      values == { << >>, << " " >>, << "+", "1", "2" >>,
                  << "a", "@", "b", ".", "c" >>,
                  << "h", "t", "t", "p", ":", "/", "/", "x" >>,
                  << "a", " ", "l" >> }
  IN  UNION { { obj \in [ 1..n -> keys \X values ] :
                  \A i, j \in 1..n : obj[i][1] = obj[j][1] => i = j }
              : n \in 0..MaxEntries }

LibInit ==
  /\ \E c \in
         { << "validateRecord", << key, value >> >> :
             key \in CalledKeys, value \in ValidationValues }
           \cup { << "validateRecords", << obj >> >> : obj \in RecordObjects }
           \cup { << "getRecordCategory", << key >> >> : key \in CalledKeys }
           \cup { << "getRecordsByCategory", << >> >> } :
       callee = c[1] /\ args = c[2]
  /\ ret = << >>

LibIdle ==
  /\ callee = ""
  /\ args = << >>
  /\ ret = << >>

Returns(name, value) ==
  /\ callee = name
  /\ ret = << >>
  /\ ret' = << value >>
  /\ UNCHANGED << callee, args >>
  /\ UNCHANGED outsideLib

CallValidateRecord ==
  Returns("validateRecord", validateRecord(args[1], args[2]))

CallValidateRecords ==
  Returns("validateRecords", validateRecords(args[1]))

CallGetRecordCategory ==
  Returns("getRecordCategory", getRecordCategory(args[1]))

CallGetRecordsByCategory ==
  Returns("getRecordsByCategory", getRecordsByCategory)

LibNext ==
  \/ CallValidateRecord
  \/ CallValidateRecords
  \/ CallGetRecordCategory
  \/ CallGetRecordsByCategory

\* ------------------------------------------------------------------------
\* verifyBasenameRecords called with a label and then with the full name
\* ------------------------------------------------------------------------

PairInit ==
  /\ chain \in { ch \in ChainProfiles :
                    ch.owner = ZERO_ADDRESS \/ ch.resolver = ZERO_ADDRESS
                      \/ ch.addr = WalletAddress }
  /\ basename \in { << "a", "l" >>, << "A", "l" >>, << "a", ".", "l" >>,
                     << "0", "x" >>, << "a", " ", "l" >> }
  /\ pc = "start"
  /\ normalizedName = << >>
  /\ node = << >>
  /\ owner = Null
  /\ resolverAddress = Null
  /\ addressRecord = Null
  /\ records = EmptyObject
  /\ idx = 0
  /\ calls = << >>
  /\ replies = << >>
  /\ result = Null
  /\ finished = << >>

\* The call has ended; the next call is made with the same label followed
\* by the parent domain, against the same chain.
CallAgain ==
  /\ pc \in { "done", "thrown" }
  /\ finished = << >>
  /\ finished' = << [ basename |-> basename, pc |-> pc, node |-> node,
                      replies |-> replies, result |-> result ] >>
  /\ basename' = basename \o << "." >> \o PARENT_DOMAIN
  /\ pc' = "start"
  /\ normalizedName' = << >>
  /\ node' = << >>
  /\ owner' = Null
  /\ resolverAddress' = Null
  /\ addressRecord' = Null
  /\ records' = EmptyObject
  /\ idx' = 0
  /\ calls' = << >>
  /\ replies' = << >>
  /\ result' = Null
  /\ UNCHANGED << chain, nodeVars, libVars, query, register, toolVars >>

\* The chain and the client answer the second call as they answered the
\* first, and no call meets more failed reads than MaxPairFailures.
AnsweredAlike ==
  /\ FailureCount(replies') <= MaxPairFailures
  /\ finished # << >> =>
       /\ Len(replies') <= Len(finished[1].replies)
       /\ replies' = SubSeq(finished[1].replies, 1, Len(replies'))

PairNext ==
  \/ VerifyNext /\ AnsweredAlike
  \/ CallAgain

\* ------------------------------------------------------------------------
\* The Query tab: QueryBasename.handleQuery and queryBasename
\* ------------------------------------------------------------------------

QueryIdle ==
  query = [ configured |-> TRUE, basename |-> << >>, loading |-> FALSE,
            result |-> << >>, error |-> Null, pc |-> "idle", failed |-> 0,
            normalizedName |-> << >>, node |-> << >>, resolver |-> Null,
            owner |-> Null, addressRecord |-> Null, records |-> EmptyObject,
            idx |-> 0, primaryName |-> Null ]

\* The component as mounted, with a name typed into the input; the
\* registry address is configured or not.
QueryInit ==
  /\ chain \in ChainProfiles
  /\ \E name \in Basenames \cup { << >> }, configured \in BOOLEAN :
       query = [ configured |-> configured, basename |-> name,
                 loading |-> FALSE, result |-> << >>, error |-> Null,
                 pc |-> "idle", failed |-> 0,
                 normalizedName |-> << >>, node |-> << >>, resolver |-> Null,
                 owner |-> Null, addressRecord |-> Null,
                 records |-> EmptyObject, idx |-> 0, primaryName |-> Null ]
  /\ basename = << >>
  /\ pc = "idle"
  /\ normalizedName = << >>
  /\ node = << >>
  /\ owner = Null
  /\ resolverAddress = Null
  /\ addressRecord = Null
  /\ records = EmptyObject
  /\ idx = 0
  /\ calls = << >>
  /\ replies = << >>
  /\ result = Null

\* const textKeys = ['avatar', 'description', 'address']
textKeys == << "avatar", "description", "address" >>

\* The outcomes of awaiting a read of queryBasename: a value the contract
\* returns (the reverse registrar's node is zero or not, the primary name
\* set or not), or a failure while the bound on failures is not used up.
QueryOutcomes(functionName, key) ==
  { Returned(v) : v \in
      CASE functionName = "resolver" -> { chain.resolver }
        [] functionName = "owner" -> { chain.owner }
        [] functionName = "addr" -> { chain.addr }
        [] functionName = "text" ->
             { IF key \in DOMAIN chain.text THEN chain.text[key] ELSE "" }
        [] functionName = "node" -> { Zero32, keccak256(<< <<1>> >>) }
        [] functionName = "name" -> { "", "al.basetest.eth" } }
    \cup (IF query.failed < MaxFailures
          THEN { Threw(e) : e \in ThrownValues \cup
                   { [ isError |-> TRUE, message |-> "HTTP request failed" ] } }
          ELSE {})

RegistryNotSet ==
  "NEXT_PUBLIC_BASENAMES_REGISTRY_BASE_SEPOLIA is not set. Please set BASENAMES_REGISTRY_BASE_SEPOLIA in parent .env.local"

\* The catch block of handleQuery: the message it shows for what was
\* thrown.
errorMessage(message) ==
  LET msg == IF Truthy(message) THEN message ELSE "Query failed"
  IN  CASE msg = RegistryNotSet ->
             "Contract address not configured. Please set the required BASENAMES_* variables in parent .env.local file."
        [] msg = "HTTP request failed" ->
             "Failed to connect to RPC endpoint. Please check your BASE_RPC_URL configuration."
        [] OTHER -> msg

\* queryBasename throws: handleQuery's catch and finally blocks.
QueryCaught(message, failures) ==
  query' = [ query EXCEPT !.error = errorMessage(message), !.loading = FALSE,
                          !.pc = "idle", !.failed = failures ]

\* queryBasename returns data: setResult(data) and the finally block.
QueryReturns(q, data) ==
  query' = [ q EXCEPT !.result = << data >>, !.loading = FALSE, !.pc = "idle" ]

\* The data queryBasename returns at its end.
QueryData(q) ==
  [ basename |-> q.normalizedName, node |-> q.node, resolver |-> q.resolver,
    owner |-> q.owner, addressRecord |-> q.addressRecord,
    primaryName |-> q.primaryName, records |-> q.records ]

\* A click on Query Basename: handleQuery up to the first await of
\* queryBasename.
HandleQuery ==
  /\ query.pc = "idle"
  /\ ~query.loading
  /\ IF query.basename = << >>
     THEN query' = [ query EXCEPT !.error = "Please enter a basename" ]
     ELSE LET q == [ query EXCEPT !.loading = TRUE, !.error = Null,
                                  !.result = << >>, !.failed = 0,
                                  !.resolver = Null, !.owner = Null,
                                  !.addressRecord = Null,
                                  !.records = EmptyObject, !.idx = 0,
                                  !.primaryName = Null,
                                  !.normalizedName = << >>, !.node = << >> ]
          IN  IF ~query.configured
              THEN query' = [ q EXCEPT !.error = errorMessage(RegistryNotSet),
                                       !.loading = FALSE ]
              ELSE IF normalizeThrows(query.basename)
              THEN query' = [ q EXCEPT !.error = errorMessage("Disallowed character"),
                                       !.loading = FALSE ]
              ELSE query' =
                     [ q EXCEPT !.normalizedName = normalize(query.basename),
                                !.node = calculateSubnameNode_query(
                                           extractLabel(normalize(query.basename)),
                                           PARENT_NODE),
                                !.pc = "resolver" ]
  /\ UNCHANGED outsideQuery

\* The resolver read settles; a failure leaves queryBasename.
QueryResolverSettles ==
  /\ query.pc = "resolver"
  /\ \E out \in QueryOutcomes("resolver", Null) :
       IF ~out.ok THEN QueryCaught(out.message, query.failed + 1)
       ELSE IF ~Truthy(out.value) \/ out.value = ZERO_ADDRESS
       THEN QueryReturns(query,
              [ basename |-> query.normalizedName, node |-> query.node,
                resolver |-> Null, owner |-> Null, addressRecord |-> Null,
                primaryName |-> Null, records |-> EmptyObject ])
       ELSE query' = [ query EXCEPT !.resolver = out.value, !.pc = "owner" ]
  /\ UNCHANGED outsideQuery

\* The owner read settles; a failure leaves queryBasename.
QueryOwnerSettles ==
  /\ query.pc = "owner"
  /\ \E out \in QueryOutcomes("owner", Null) :
       IF ~out.ok THEN QueryCaught(out.message, query.failed + 1)
       ELSE query' = [ query EXCEPT !.owner = out.value, !.pc = "addr" ]
  /\ UNCHANGED outsideQuery

\* The addr read settles; a failure is swallowed.
QueryAddrSettles ==
  /\ query.pc = "addr"
  /\ \E out \in QueryOutcomes("addr", Null) :
       query' =
         [ query EXCEPT
             !.addressRecord = IF out.ok /\ out.value # ZERO_ADDRESS
                               THEN out.value ELSE Null,
             !.failed = IF out.ok THEN @ ELSE @ + 1,
             !.pc = "text", !.idx = 1 ]
  /\ UNCHANGED outsideQuery

\* A text read of the loop over textKeys settles; a failure records null.
\* After the last key comes the reverse lookup when there is an address
\* record, the return otherwise.
QueryTextSettles ==
  /\ query.pc = "text"
  /\ \E out \in QueryOutcomes("text", textKeys[query.idx]) :
       LET key == textKeys[query.idx]
           q == [ query EXCEPT
                    !.records = Put(@, key, IF out.ok /\ Truthy(out.value)
                                             THEN out.value ELSE Null),
                    !.failed = IF out.ok THEN @ ELSE @ + 1,
                    !.idx = @ + 1 ]
       IN  IF query.idx < Len(textKeys) THEN query' = q
           ELSE IF Truthy(q.addressRecord)
           THEN query' = [ q EXCEPT !.pc = "node" ]
           ELSE QueryReturns(q, QueryData(q))
  /\ UNCHANGED outsideQuery

\* The reverse registrar's node read settles; a failure is swallowed.
QueryReverseNodeSettles ==
  /\ query.pc = "node"
  /\ \E out \in QueryOutcomes("node", Null) :
       IF out.ok /\ out.value # Zero32
       THEN query' = [ query EXCEPT !.pc = "name" ]
       ELSE QueryReturns([ query EXCEPT !.failed = IF out.ok THEN @ ELSE @ + 1 ],
                         QueryData(query))
  /\ UNCHANGED outsideQuery

\* The name read settles; a failure is swallowed.
QueryNameSettles ==
  /\ query.pc = "name"
  /\ \E out \in QueryOutcomes("name", Null) :
       LET q == [ query EXCEPT
                    !.primaryName = IF out.ok THEN out.value ELSE Null,
                    !.failed = IF out.ok THEN @ ELSE @ + 1 ]
       IN  QueryReturns(q, QueryData(q))
  /\ UNCHANGED outsideQuery

QueryNext ==
  \/ HandleQuery
  \/ QueryResolverSettles
  \/ QueryOwnerSettles
  \/ QueryAddrSettles
  \/ QueryTextSettles
  \/ QueryReverseNodeSettles
  \/ QueryNameSettles

\* ------------------------------------------------------------------------
\* The registration form: RegisterBasename
\* ------------------------------------------------------------------------

\* The component as mounted for a wallet and with a name typed in.
Mounted(isConnected, name, addressToSet) ==
  [ isConnected |-> isConnected,
    address |-> IF isConnected THEN WalletAddress ELSE Undefined,
    name |-> name, addressToSet |-> addressToSet, description |-> << >>,
    isRegistering |-> FALSE, isSettingRecords |-> FALSE,
    isWaitingRegister |-> FALSE, isWaitingRecords |-> FALSE,
    registerTxHash |-> Null, recordsTxHash |-> Null,
    isRegisterSuccess |-> FALSE, isRecordsSuccess |-> FALSE,
    additionalRecords |-> EmptyObject, validationErrors |-> EmptyObject,
    verificationResult |-> << >>, isVerifying |-> FALSE,
    pc |-> "idle", alert |-> Null, edits |-> 0, verified |-> << >>,
    registerReceipt |-> Null, recordsReceipt |-> Null, subnameNode |-> << >> ]

RegisterIdle == register = Mounted(FALSE, << >>, << >>)

\* STANDARD_ENS_KEYS.filter(key => key !== 'addr' && key !== 'description')
additionalRecordKeys ==
  SelectSeq(STANDARD_ENS_KEYS,
            LAMBDA key : key # "addr" /\ key # "description")

\* The disabled attribute of the inputs.
inputsDisabled ==
  \/ register.isRegistering
  \/ register.isSettingRecords
  \/ register.isWaitingRegister
  \/ register.isWaitingRecords

\* The disabled attribute of the Register button.
disabled ==
  \/ inputsDisabled
  \/ ~register.isConnected
  \/ register.name = << >>
  \/ register.addressToSet = << >>
  \/ Cardinality(DOMAIN register.validationErrors) > 0

\* The validationErrors after the validation of one field.
Validated(errors, key, validation, fallback) ==
  IF validation.valid
  THEN [ k \in (DOMAIN errors) \ { key } |-> errors[k] ]
  ELSE Put(errors, key,
           IF Truthy(validation.error) THEN validation.error ELSE fallback)

\* validateAddress that never clears an error.
validateAddressKeepingErrors(addr) ==
  IF validateRecord("addr", addr).valid THEN register.validationErrors
  ELSE Validated(register.validationErrors, "addr",
                 validateRecord("addr", addr), "Invalid Ethereum address")

\* validateAddress(addr): the validationErrors it sets.
validateAddress(addr) ==
  Validated(register.validationErrors, "addr", validateRecord("addr", addr),
            "Invalid Ethereum address")

\* The onChange of the address input.
EditAddress ==
  /\ ~inputsDisabled
  /\ register.edits < MaxEdits
  /\ \E value \in { << >>, << " " >>, << "0", "x", "1" >>,
                     << "0", "x" >> \o Repeat("a", 40) } :
       register' = [ register EXCEPT
                       !.addressToSet = value,
                       !.validationErrors = validateAddress(value),
                       !.edits = @ + 1 ]
  /\ UNCHANGED verifyVars
  /\ UNCHANGED outsideRegister

\* updateAdditionalRecord(key, value), the onChange of the other inputs.
updateAdditionalRecord ==
  /\ ~inputsDisabled
  /\ register.edits < MaxEdits
  /\ \E key \in Range(additionalRecordKeys),
        value \in { << >>, << "a" >>, << "a", " ", "l" >>, << "+", "1", "2" >> } :
       register' = [ register EXCEPT
                       !.additionalRecords = Put(@, key, value),
                       !.validationErrors =
                          Validated(@, key, validateRecord(key, value),
                                    "Invalid value"),
                       !.edits = @ + 1 ]
  /\ UNCHANGED verifyVars
  /\ UNCHANGED outsideRegister

FormInit ==
  /\ \E isConnected \in BOOLEAN, name \in { << >>, << "a", "l" >> } :
       register = Mounted(isConnected, name, << >>)
  /\ VerifyIdle

FormNext ==
  \/ EditAddress
  \/ updateAdditionalRecord

\* ------------------------------------------------------------------------
\* Registration: handleRegister, handleSetRecords and runVerification
\* ------------------------------------------------------------------------

\* The form filled in for the name al, with or without a wallet and with or
\* without a field in error, over a chain that holds the registered name
\* with some of its records.
RegisterInit ==
  /\ \E isConnected \in BOOLEAN, email \in { << >>, << "a" >> } :
       register =
         [ Mounted(isConnected, << "a", "l" >>, << "0", "x" >> \o Repeat("a", 40))
             EXCEPT !.additionalRecords =
                      IF email = << >> THEN EmptyObject
                      ELSE Put(EmptyObject, "email", email),
                    !.validationErrors =
                      Validated(EmptyObject, "email",
                                validateRecord("email", email), "Invalid value") ]
  /\ chain \in { ch \in ChainProfiles :
                    ch.addr = WalletAddress /\ ch.text["mail"] = "" }
  /\ basename = << >>
  /\ pc = "idle"
  /\ normalizedName = << >>
  /\ node = << >>
  /\ owner = Null
  /\ resolverAddress = Null
  /\ addressRecord = Null
  /\ records = EmptyObject
  /\ idx = 0
  /\ calls = << >>
  /\ replies = << >>
  /\ result = Null

\* The form filled in by a connected user with one of several names: a
\* label, a label with a capital, a name with a dot in it and a label that
\* reads as hexadecimal.
NamesInit ==
  /\ \E name \in { << "a", "l" >>, << "A", "l" >>, << "a", ".", "l" >>,
                    << "0", "x" >> } :
       register = Mounted(TRUE, name, << "0", "x" >> \o Repeat("a", 40))
  /\ chain \in { ch \in ChainProfiles :
                    ch.addr = WalletAddress /\ ch.text["mail"] = "" }
  /\ basename = << >>
  /\ pc = "idle"
  /\ normalizedName = << >>
  /\ node = << >>
  /\ owner = Null
  /\ resolverAddress = Null
  /\ addressRecord = Null
  /\ records = EmptyObject
  /\ idx = 0
  /\ calls = << >>
  /\ replies = << >>
  /\ result = Null

\* fullName of the component: the normalized name and the parent domain.
fullName ==
  IF register.name = << >> THEN << >>
  ELSE normalize(register.name) \o << "." >> \o PARENT_DOMAIN

\* getWalletClient() of useWallet: null without a connected wallet.
getWalletClient == IF register.isConnected THEN "walletClient" ELSE Null

\* What awaiting a wallet or client promise gives: a value or a throw.
Settlements(values) ==
  { Returned(v) : v \in values } \cup { Threw(e) : e \in ThrownValues }

\* The catch block of handleRegister.
RegisterCaught(message) ==
  register' = [ register EXCEPT
                  !.alert = IF Truthy(message) THEN message
                            ELSE "Failed to register basename",
                  !.isRegistering = FALSE, !.isWaitingRegister = FALSE,
                  !.pc = "idle" ]

\* The catch block of handleSetRecords (r is the state it was entered in).
RecordsCaught(r, message) ==
  register' = [ r EXCEPT
                  !.alert = IF Truthy(message) THEN message
                            ELSE "Failed to set resolver records",
                  !.isSettingRecords = FALSE, !.isWaitingRecords = FALSE,
                  !.pc = "idle" ]

\* A click on the Register button: handleRegister up to its first await.
HandleRegister ==
  /\ register.pc = "idle"
  /\ ~disabled
  /\ Len(register.verified) <= MaxVerifications
  /\ IF ~register.isConnected \/ ~Truthy(register.address)
     THEN register' = [ register EXCEPT !.alert = "Please connect your wallet" ]
     ELSE IF register.name = << >> \/ register.addressToSet = << >>
     THEN register' = [ register EXCEPT
                          !.alert = "Please fill in name and address to set" ]
     ELSE IF ~Truthy(getWalletClient)
     THEN register' = [ register EXCEPT !.alert = "Wallet not connected" ]
     ELSE register' = [ register EXCEPT
                          !.isRegistering = TRUE,
                          !.isWaitingRegister = FALSE,
                          !.registerTxHash = Null,
                          !.isRegisterSuccess = FALSE,
                          !.registerReceipt = Null,
                          !.pc = "register.getAddresses" ]
  /\ UNCHANGED verifyVars
  /\ UNCHANGED outsideRegister

\* walletClient.getAddresses() of handleRegister settles; with an account
\* the register transaction is sent.
RegisterAccountsSettle ==
  /\ register.pc = "register.getAddresses"
  /\ \E out \in Settlements({ 0, 1 }) :
       IF ~out.ok THEN RegisterCaught(out.message)
       ELSE IF out.value = 0 THEN RegisterCaught("No accounts found in wallet")
       ELSE register' = [ register EXCEPT !.pc = "register.writeContract" ]
  /\ UNCHANGED verifyVars
  /\ UNCHANGED outsideRegister

\* walletClient.writeContract(register) settles.
RegisterWriteSettles ==
  /\ register.pc = "register.writeContract"
  /\ \E out \in Settlements({ "0xregister" }) :
       IF ~out.ok THEN RegisterCaught(out.message)
       ELSE register' = [ register EXCEPT
                            !.registerTxHash = out.value,
                            !.isRegistering = FALSE,
                            !.isWaitingRegister = TRUE,
                            !.pc = "register.receipt" ]
  /\ UNCHANGED verifyVars
  /\ UNCHANGED outsideRegister

\* waitForTransactionReceipt of the registration settles with the receipt
\* of a transaction that succeeded or was reverted, or throws; on a
\* receipt handleSetRecords runs up to its first await.
RegisterReceiptSettles ==
  /\ register.pc = "register.receipt"
  /\ \E out \in Settlements({ "success", "reverted" }) :
       IF ~out.ok THEN RegisterCaught(out.message)
       ELSE LET r == [ register EXCEPT !.isWaitingRegister = FALSE,
                                       !.isRegisterSuccess = TRUE,
                                       !.registerReceipt = out.value ]
            IN  IF \/ r.addressToSet = << >>
                   \/ ~r.isConnected \/ ~Truthy(r.address)
                   \/ normalize(r.name) = << >>
                THEN register' = [ r EXCEPT !.pc = "idle" ]
                ELSE IF ~Truthy(getWalletClient)
                THEN register' = [ r EXCEPT !.alert = "Wallet not connected",
                                            !.pc = "idle" ]
                ELSE register' = [ r EXCEPT
                                     !.isSettingRecords = TRUE,
                                     !.isWaitingRecords = FALSE,
                                     !.recordsTxHash = Null,
                                     !.isRecordsSuccess = FALSE,
                                     !.recordsReceipt = Null,
                                     !.subnameNode =
                                        calculateSubnameNode_component(
                                          normalize(r.name), PARENT_NODE),
                                     !.pc = "records.getAddresses" ]
  /\ UNCHANGED verifyVars
  /\ UNCHANGED outsideRegister

\* walletClient.getAddresses() of handleSetRecords settles; with an account
\* the multicall (setAddr first, so never empty) is sent.
RecordsAccountsSettle ==
  /\ register.pc = "records.getAddresses"
  /\ \E out \in Settlements({ 0, 1 }) :
       IF ~out.ok THEN RecordsCaught(register, out.message)
       ELSE IF out.value = 0
       THEN RecordsCaught(register, "No accounts found in wallet")
       ELSE register' = [ register EXCEPT !.pc = "records.writeContract" ]
  /\ UNCHANGED verifyVars
  /\ UNCHANGED outsideRegister

\* walletClient.writeContract(multicall) settles.
RecordsWriteSettles ==
  /\ register.pc = "records.writeContract"
  /\ \E out \in Settlements({ "0xrecords" }) :
       IF ~out.ok THEN RecordsCaught(register, out.message)
       ELSE register' = [ register EXCEPT
                            !.recordsTxHash = out.value,
                            !.isSettingRecords = FALSE,
                            !.isWaitingRecords = TRUE,
                            !.pc = "records.receipt" ]
  /\ UNCHANGED verifyVars
  /\ UNCHANGED outsideRegister

\* waitForTransactionReceipt of the multicall settles; on a receipt
\* runVerification(fullName) runs up to its timer.
RecordsReceiptSettles ==
  /\ register.pc = "records.receipt"
  /\ \E out \in Settlements({ "success", "reverted" }) :
       IF ~out.ok THEN RecordsCaught(register, out.message)
       ELSE LET r == [ register EXCEPT !.isWaitingRecords = FALSE,
                                       !.isRecordsSuccess = TRUE,
                                       !.recordsReceipt = out.value ]
            IN  IF fullName = << >>
                THEN register' = [ r EXCEPT !.pc = "idle" ]
                ELSE register' = [ r EXCEPT !.isVerifying = TRUE,
                                            !.verificationResult = << >>,
                                            !.pc = "verify.timeout" ]
  /\ UNCHANGED verifyVars
  /\ UNCHANGED outsideRegister

\* The two seconds of runVerification have passed: verifyBasenameRecords
\* is called with the full name.
VerificationTimerFires ==
  /\ register.pc = "verify.timeout"
  /\ register' = [ register EXCEPT !.verified = Append(@, fullName),
                                    !.pc = "verify.call" ]
  /\ basename' = fullName
  /\ pc' = "start"
  /\ normalizedName' = << >>
  /\ node' = << >>
  /\ owner' = Null
  /\ resolverAddress' = Null
  /\ addressRecord' = Null
  /\ records' = EmptyObject
  /\ idx' = 0
  /\ calls' = << >>
  /\ replies' = << >>
  /\ result' = Null
  /\ UNCHANGED chain
  /\ UNCHANGED outsideRegister

\* verifyBasenameRecords returns or throws: the try, catch and finally of
\* runVerification.
VerificationSettles ==
  /\ register.pc = "verify.call"
  /\ pc \in { "done", "thrown" }
  /\ register' = [ register EXCEPT
                     !.verificationResult =
                        IF pc = "done" THEN << result >> ELSE @,
                     !.isVerifying = FALSE,
                     !.pc = "idle" ]
  /\ UNCHANGED verifyVars
  /\ UNCHANGED outsideRegister

\* The steps the wallet, the client and the timer complete on their own.
RegisterSettles ==
  \/ RegisterAccountsSettle
  \/ RegisterWriteSettles
  \/ RegisterReceiptSettles
  \/ RecordsAccountsSettle
  \/ RecordsWriteSettles
  \/ RecordsReceiptSettles
  \/ VerificationTimerFires
  \/ VerificationSettles
  \/ VerifyNext

\* The button is not clicked again once a registration has been confirmed.
RegisterOnce == HandleRegister /\ ~register.isRegisterSuccess

\* One registration.
RegisterNext ==
  \/ RegisterOnce
  \/ RegisterSettles

\* The reads of the verification do not fail.
SettlesWithReadsAnswered == RegisterSettles /\ FailureCount(replies') = 0

\* Registration attempts one after the other.
AttemptsNext ==
  \/ HandleRegister
  \/ SettlesWithReadsAnswered

\* ------------------------------------------------------------------------
\* The registration script: registerBasenameWithRecords
\* ------------------------------------------------------------------------

REGISTRAR_CONTROLLER == "BASENAMES_REGISTRAR_CONTROLLER_BASE_SEPOLIA"

REVERSE_REGISTRAR == "BASENAMES_REVERSE_REGISTRAR_BASE_SEPOLIA"

\* A contract call as the script's clients see it: a read, a simulation,
\* a transaction (write) or the wait for a transaction's receipt, with
\* the contract, the function and its arguments.
ContractCall(kind, address, functionName, callArgs) ==
  [ kind |-> kind, address |-> address, functionName |-> functionName,
    args |-> callArgs ]

\* buildResolverData: one setAddr call, then one setText call per entry of
\* textRecords (<< >> stands for undefined and for an object with no entry).
buildResolverData(subnameNode, addressToSet, textRecords) ==
  << [ functionName |-> "setAddr", args |-> << subnameNode, addressToSet >> ] >>
  \o [ n \in 1..Len(textRecords) |->
         [ functionName |-> "setText",
           args |-> << subnameNode, textRecords[n][1], textRecords[n][2] >> ] ]

ScriptIdle == script = << >>

\* A call of registerBasenameWithRecords: CURATOR_PRIVATE_KEY set or not,
\* a label, an address to set (or the empty string), text records or none,
\* and the reverseRecord flag.
ScriptInit ==
  \E privateKey \in BOOLEAN,
     name \in { << "a", "l" >>, << "A", "l" >>, << "a", " " >> },
     addressToSet \in { WalletAddress, "" },
     textRecords \in { << >>, << << "description", "d" >> >> },
     textRecordsGiven \in BOOLEAN,
     reverseRecord \in BOOLEAN :
    /\ textRecords # << >> => textRecordsGiven
    /\ script = [ privateKey |-> privateKey, name |-> name,
                  addressToSet |-> addressToSet,
                  textRecords |-> textRecords,
                  textRecordsGiven |-> textRecordsGiven,
                  reverseRecord |-> reverseRecord,
                  pc |-> "start", normalizedName |-> << >>,
                  subnameNode |-> << >>, price |-> Null,
                  calls |-> << >>, replies |-> << >>,
                  outcome |-> "running" ]

\* The script issues a call and awaits it at pcNew.
Awaiting(s, pcNew, call) ==
  [ s EXCEPT !.pc = pcNew, !.calls = Append(@, call) ]

ScriptThrows(s) == [ s EXCEPT !.pc = "done", !.outcome = "threw" ]

\* Step 8 and the return: the reverse record is set when it was asked for
\* and there is an address; otherwise the function returns.
AfterRecords(s) ==
  IF s.reverseRecord /\ Truthy(s.addressToSet)
  THEN Awaiting(s, "reverse.write",
                ContractCall("write", REVERSE_REGISTRAR, "setNameForAddr",
                  << s.addressToSet, "account", RESOLVER,
                     s.normalizedName \o << "." >> \o PARENT_DOMAIN >>))
  ELSE [ s EXCEPT !.pc = "done", !.outcome = "returned" ]

\* Up to the await of checkBasenameAvailable: the private key is tested,
\* the name is normalized, and available(name) is read.
ScriptStart ==
  /\ script.pc = "start"
  /\ script' =
       IF ~script.privateKey \/ normalizeThrows(script.name)
       THEN ScriptThrows(script)
       ELSE Awaiting([ script EXCEPT !.normalizedName = normalize(script.name) ],
                     "available",
                     ContractCall("read", REGISTRAR_CONTROLLER, "available",
                                  << normalize(script.name) >>))
  /\ UNCHANGED << appVars, wrapper, pricing, check >>

\* The call awaited settles with a reply.
Replied(s, reply) == [ s EXCEPT !.replies = Append(@, reply) ]

\* available(name) settles: a name that is taken and a failed read both
\* throw; otherwise the node is calculated and registerPrice is read.
ScriptAvailableSettles ==
  /\ script.pc = "available"
  /\ \E isAvailable \in { "true", "false", "throws" } :
       LET s == Replied(script, isAvailable)
       IN  script' =
             IF isAvailable # "true" THEN ScriptThrows(s)
             ELSE Awaiting([ s EXCEPT !.subnameNode =
                               calculateSubnameNode_register(s.normalizedName,
                                                             PARENT_NODE) ],
                           "price",
                           ContractCall("read", REGISTRAR_CONTROLLER,
                                        "registerPrice",
                                        << s.normalizedName, "duration" >>))
  /\ UNCHANGED << appVars, wrapper, pricing, check >>

\* The RegisterRequest of steps 5 to 7.
RegisterRequest(s) ==
  [ name |-> s.normalizedName, owner |-> OwnerAddress, duration |-> "duration",
    resolver |-> RESOLVER, data |-> << >>, reverseRecord |-> s.reverseRecord ]

\* registerPrice settles: with a price the request is built and the
\* register call is simulated.
ScriptPriceSettles ==
  /\ script.pc = "price"
  /\ \E price \in { "1 wei", "throws" } :
       LET s == Replied(script, price)
       IN  script' =
             IF price = "throws" THEN ScriptThrows(s)
             ELSE Awaiting([ s EXCEPT !.price = price ], "simulate",
                    ContractCall("simulate", REGISTRAR_CONTROLLER, "register",
                                 << RegisterRequest(s), price >>))
  /\ UNCHANGED << appVars, wrapper, pricing, check >>

\* The simulation settles and the transaction is sent whatever it said (a
\* mutation).
ScriptSimulateSettlesUnchecked ==
  /\ script.pc = "simulate"
  /\ \E reply \in { "passed", "throws" } :
       LET s == Replied(script, reply)
       IN  script' = Awaiting(s, "register.write",
                       ContractCall("write", REGISTRAR_CONTROLLER, "register",
                                    << RegisterRequest(s), s.price >>))
  /\ UNCHANGED << appVars, wrapper, pricing, check >>

\* The simulation settles: a failure is logged and thrown again; otherwise
\* the register transaction is sent.
ScriptSimulateSettles ==
  /\ script.pc = "simulate"
  /\ \E reply \in { "passed", "throws" } :
       LET s == Replied(script, reply)
       IN  script' =
             IF reply = "throws" THEN ScriptThrows(s)
             ELSE Awaiting(s, "register.write",
                    ContractCall("write", REGISTRAR_CONTROLLER, "register",
                                 << RegisterRequest(s), s.price >>))
  /\ UNCHANGED << appVars, wrapper, pricing, check >>

\* writeContract of the register transaction settles, and then its
\* receipt: a rejected send, a failed wait and a reverted transaction
\* throw.  After a confirmed registration the records are set by
\* setResolverRecords when there is an address or text records: it encodes
\* the calls (which throws for a value that is not an address) and sends
\* the resolver's multicall; what it throws is caught and logged.
ScriptRegisterSettles ==
  /\ \/ /\ script.pc = "register.write"
        /\ \E reply \in { "sent", "throws" } :
             LET s == Replied(script, reply)
             IN  script' = IF reply = "sent"
                           THEN Awaiting(s, "register.receipt",
                                  ContractCall("wait", REGISTRAR_CONTROLLER,
                                               "register", << >>))
                           ELSE ScriptThrows(s)
     \/ /\ script.pc = "register.receipt"
        /\ \E status \in { "success", "reverted", "throws" } :
             LET s == Replied(script, status)
             IN  script' =
                   IF status # "success" THEN ScriptThrows(s)
                   ELSE IF ~(Truthy(s.addressToSet) \/ s.textRecordsGiven)
                   THEN AfterRecords(s)
                   ELSE IF ~Truthy(s.addressToSet)
                   THEN AfterRecords(s)
                   ELSE Awaiting(s, "records.write",
                          ContractCall("write", RESOLVER, "multicall",
                            << buildResolverData(s.subnameNode, s.addressToSet,
                                                 s.textRecords) >>))
  /\ UNCHANGED << appVars, wrapper, pricing, check >>

\* The multicall of setResolverRecords settles, and then its receipt; every
\* failure is caught by registerBasenameWithRecords, which goes on.
ScriptRecordsSettle ==
  /\ \/ /\ script.pc = "records.write"
        /\ \E reply \in { "sent", "throws" } :
             LET s == Replied(script, reply)
             IN  script' = IF reply = "sent"
                           THEN Awaiting(s, "records.receipt",
                                  ContractCall("wait", RESOLVER, "multicall",
                                               << >>))
                           ELSE AfterRecords(s)
     \/ /\ script.pc = "records.receipt"
        /\ \E status \in { "success", "reverted", "throws" } :
             script' = AfterRecords(Replied(script, status))
  /\ UNCHANGED << appVars, wrapper, pricing, check >>

\* setNameForAddr of setReverseRecord settles, and then its receipt; every
\* failure is caught, and the function returns.
ScriptReverseSettles ==
  /\ \/ /\ script.pc = "reverse.write"
        /\ \E reply \in { "sent", "throws" } :
             LET s == Replied(script, reply)
             IN  script' = IF reply = "sent"
                           THEN Awaiting(s, "reverse.receipt",
                                  ContractCall("wait", REVERSE_REGISTRAR,
                                               "setNameForAddr", << >>))
                           ELSE [ s EXCEPT !.pc = "done",
                                           !.outcome = "returned" ]
     \/ /\ script.pc = "reverse.receipt"
        /\ \E status \in { "success", "reverted", "throws" } :
             script' = [ Replied(script, status) EXCEPT
                           !.pc = "done", !.outcome = "returned" ]
  /\ UNCHANGED << appVars, wrapper, pricing, check >>

\* ------------------------------------------------------------------------
\* The secure deployment wrapper (a bash script run with set -e)
\* ------------------------------------------------------------------------

WrapperIdle == wrapper = << >>

\* A run of the wrapper: whether autark is installed, whether the config is
\* in the root directory, whether out/ exists, what out/ holds under the
\* name secure-deploy.config.json ("none", "symlink" or "file"), and
\* whether the config can be read through a symlink.
WrapperInit ==
  \E autark \in BOOLEAN, configInRoot \in BOOLEAN, outDir \in BOOLEAN,
     out \in { "none", "symlink", "file" }, readable \in BOOLEAN :
    /\ ~outDir => out = "none"
    /\ wrapper = [ autark |-> autark, configInRoot |-> configInRoot,
                   outDir |-> outDir, out |-> out, readable |-> readable,
                   pc |-> "prepare", trap |-> FALSE, created |-> FALSE,
                   pending |-> FALSE, signals |-> 0, status |-> "running" ]

\* cleanup(): removes out/secure-deploy.config.json when it is a symlink or
\* a regular file.
cleanup(w) ==
  IF w.out \in { "symlink", "file" } THEN [ w EXCEPT !.out = "none" ] ELSE w

\* The shell exits with a status (exit, set -e, or the end of the script):
\* the EXIT trap runs when it has been set.
Exit(w, status) ==
  [ (IF w.trap THEN cleanup(w) ELSE w) EXCEPT !.pc = "exited",
                                               !.status = status ]

\* Lines 17 to 50: the three checks, each ending the script with exit 1,
\* and the removal of a config file or symlink left in out/.
WrapperPrepare ==
  /\ wrapper.pc = "prepare"
  /\ wrapper' =
       IF ~wrapper.autark \/ ~wrapper.configInRoot \/ ~wrapper.outDir
       THEN Exit(wrapper, "1")
       ELSE [ wrapper EXCEPT !.pc = "link", !.out = "none" ]
  /\ UNCHANGED << appVars, script, pricing, check >>

\* Line 54: ln -s; when it fails set -e ends the script.
WrapperLink ==
  /\ wrapper.pc = "link"
  /\ \E linked \in BOOLEAN :
       wrapper' =
         IF linked
         THEN [ wrapper EXCEPT !.pc = "trap", !.out = "symlink",
                               !.created = TRUE ]
         ELSE Exit(wrapper, "1")
  /\ UNCHANGED << appVars, script, pricing, check >>

\* Lines 58 to 72: the symlink is tested and the trap is set.
WrapperTrap ==
  /\ wrapper.pc = "trap"
  /\ wrapper' =
       IF wrapper.out # "symlink" THEN Exit(wrapper, "1")
       ELSE [ wrapper EXCEPT !.pc = "readable", !.trap = TRUE ]
  /\ UNCHANGED << appVars, script, pricing, check >>

\* Lines 75 to 78: when the config cannot be read through the symlink the
\* symlink is removed, to be replaced by a copy.
WrapperReadable ==
  /\ wrapper.pc = "readable"
  /\ wrapper' =
       IF wrapper.out = "symlink" /\ wrapper.readable
       THEN [ wrapper EXCEPT !.pc = "invoke" ]
       ELSE IF wrapper.out = "none"
       THEN Exit(wrapper, "1")
       ELSE [ wrapper EXCEPT !.pc = "copy", !.out = "none" ]
  /\ UNCHANGED << appVars, script, pricing, check >>

\* Line 79: cp of the fallback; when it fails set -e ends the script.
WrapperFallbackCopy ==
  /\ wrapper.pc = "copy"
  /\ \E copied \in BOOLEAN :
       wrapper' =
         IF copied
         THEN [ wrapper EXCEPT !.pc = "invoke", !.out = "file",
                               !.created = TRUE ]
         ELSE Exit(wrapper, "1")
  /\ UNCHANGED << appVars, script, pricing, check >>

\* Lines 84 to 98: cd out/ and autark deploy is started.
WrapperInvoke ==
  /\ wrapper.pc = "invoke"
  /\ wrapper' = [ wrapper EXCEPT !.pc = "deploying" ]
  /\ UNCHANGED << appVars, script, pricing, check >>

\* autark deploy ends.  A signal that came while it ran is handled now;
\* with a failure set -e ends the script.
WrapperDeployEnds ==
  /\ wrapper.pc = "deploying"
  /\ \E deployed \in BOOLEAN :
       LET w == IF wrapper.pending
                THEN [ cleanup(wrapper) EXCEPT !.pending = FALSE ]
                ELSE wrapper
       IN  wrapper' = IF deployed THEN [ w EXCEPT !.pc = "final" ]
                      ELSE Exit(w, "1")
  /\ UNCHANGED << appVars, script, pricing, check >>

\* Lines 100 to 112: the final verification removes a regular file and
\* leaves a symlink; then the script ends.
WrapperFinal ==
  /\ wrapper.pc = "final"
  /\ wrapper' = Exit(IF wrapper.out = "file"
                     THEN [ wrapper EXCEPT !.out = "none" ] ELSE wrapper, "0")
  /\ UNCHANGED << appVars, script, pricing, check >>

\* INT or TERM reaches the shell.  Before the trap is set the signal ends
\* the script; afterwards cleanup runs, at once or when the command in the
\* foreground (autark deploy) has ended, and the script goes on.
WrapperSignal ==
  /\ wrapper.pc # "exited"
  /\ wrapper.signals < MaxSignals
  /\ wrapper' =
       IF ~wrapper.trap
       THEN [ wrapper EXCEPT !.pc = "exited", !.signals = @ + 1,
                             !.status = "killed" ]
       ELSE IF wrapper.pc = "deploying"
       THEN [ wrapper EXCEPT !.pending = TRUE, !.signals = @ + 1 ]
       ELSE [ cleanup(wrapper) EXCEPT !.signals = @ + 1 ]
  /\ UNCHANGED << appVars, script, pricing, check >>

WrapperNext ==
  \/ WrapperPrepare
  \/ WrapperLink
  \/ WrapperTrap
  \/ WrapperReadable
  \/ WrapperFallbackCopy
  \/ WrapperInvoke
  \/ WrapperDeployEnds
  \/ WrapperFinal
  \/ WrapperSignal

\* ------------------------------------------------------------------------
\* The registration form's name field and price effect
\* ------------------------------------------------------------------------

PricingIdle == pricing = << >>

\* registerPrice(name, duration) of the controller for the one duration the
\* form uses: shorter names cost more.
registerPrice(name) == IF Len(name) < 3 THEN "price of a short name"
                       ELSE "price of a long name"

\* The names typed into the form.
TypedNames == { << >>, << "a", "l" >>, << "A", "l" >>, << "b", "o", "b" >> }

\* The mounted form: no name, price null, and the effect of the first
\* render has found no normalized name and fetched nothing.
PricingInit ==
  pricing = [ name |-> << >>, price |-> Null, fetches |-> {},
              sent |-> << >>, edits |-> 0 ]

\* setName from the name field.  When the normalized name changes the
\* effect runs fetchPrice: with no name the price is set to null, otherwise
\* registerPrice is read for the new name (nothing stops the reads begun
\* for earlier names).
EditName ==
  /\ pricing.edits < MaxEdits
  /\ \E name \in TypedNames \ { pricing.name } :
       pricing' =
         IF normalize(name) = normalize(pricing.name)
         THEN [ pricing EXCEPT !.name = name, !.edits = @ + 1 ]
         ELSE IF normalize(name) = << >>
         THEN [ pricing EXCEPT !.name = name, !.edits = @ + 1,
                               !.price = Null ]
         ELSE [ pricing EXCEPT !.name = name, !.edits = @ + 1,
                               !.fetches = @ \cup { normalize(name) } ]
  /\ UNCHANGED << appVars, script, wrapper, check >>

\* A readContract of fetchPrice settles: setPrice(result), or setPrice(null)
\* in the catch.
FetchPriceSettles ==
  /\ \E name \in pricing.fetches : \E fetched \in BOOLEAN :
       pricing' = [ pricing EXCEPT
                      !.fetches = @ \ { name },
                      !.price = IF fetched THEN registerPrice(name) ELSE Null ]
  /\ UNCHANGED << appVars, script, wrapper, check >>

\* handleRegister with the name and the price of the render it was clicked
\* in: the register transaction carries value: price || BigInt(0).
SendRegister ==
  /\ pricing.name # << >>
  /\ Len(pricing.sent) < MaxSends
  /\ pricing' = [ pricing EXCEPT
                    !.sent = Append(@, [ name |-> normalize(pricing.name),
                                         value |-> IF Truthy(pricing.price)
                                                   THEN pricing.price
                                                   ELSE "0" ]) ]
  /\ UNCHANGED << appVars, script, wrapper, check >>

PricingNext ==
  \/ EditName
  \/ FetchPriceSettles
  \/ SendRegister

\* ------------------------------------------------------------------------
\* The Query and Check Availability tabs between submissions
\* ------------------------------------------------------------------------

\* setBasename('') from the input of the Query tab, which is enabled while
\* nothing is loading: the user clears the field.
ClearBasename ==
  /\ ~query.loading
  /\ query.basename # << >>
  /\ query' = [ query EXCEPT !.basename = << >> ]
  /\ UNCHANGED outsideQuery

CheckIdle == check = << >>

\* The names typed into the Check Availability tab.
CheckNames == { << >>, << "a", "l" >>, << "a", " ", "l" >> }

\* The component as mounted, with a name typed into the input.
CheckInit ==
  \E name \in CheckNames :
    check = [ name |-> name, loading |-> FALSE, result |-> << >>,
              error |-> Null, pc |-> "idle" ]

\* setName from the input, which is enabled while nothing is loading.
SetCheckName ==
  /\ ~check.loading
  /\ \E name \in CheckNames \ { check.name } :
       check' = [ check EXCEPT !.name = name ]
  /\ UNCHANGED << appVars, script, wrapper, pricing >>

\* A click on Check Availability: handleCheck up to the await inside
\* checkBasenameAvailable; a name that normalize rejects goes through the
\* catch and finally blocks at once.
HandleCheck ==
  /\ check.pc = "idle"
  /\ ~check.loading
  /\ check' =
       IF check.name = << >>
       THEN [ check EXCEPT !.error = "Please enter a name" ]
       ELSE IF normalizeThrows(check.name)
       THEN [ check EXCEPT !.result = << >>, !.error = "Disallowed character",
                           !.loading = FALSE ]
       ELSE [ check EXCEPT !.loading = TRUE, !.error = Null,
                           !.result = << >>, !.pc = "available" ]
  /\ UNCHANGED << appVars, script, wrapper, pricing >>

\* available(name) settles: setResult(isAvailable), or the catch block's
\* setError, and then the finally block.
CheckSettles ==
  /\ check.pc = "available"
  /\ \E out \in Settlements(BOOLEAN) :
       check' =
         IF out.ok
         THEN [ check EXCEPT !.result = << out.value >>, !.loading = FALSE,
                             !.pc = "idle" ]
         ELSE [ check EXCEPT !.error = IF Truthy(out.message) THEN out.message
                                       ELSE "Check failed",
                             !.loading = FALSE, !.pc = "idle" ]
  /\ UNCHANGED << appVars, script, wrapper, pricing >>

\* The two tabs, used one after the other or side by side.
PanelsNext ==
  \/ QueryNext
  \/ ClearBasename
  \/ SetCheckName
  \/ HandleCheck
  \/ CheckSettles

ScriptNext ==
  \/ ScriptStart
  \/ ScriptAvailableSettles
  \/ ScriptPriceSettles
  \/ ScriptSimulateSettles
  \/ ScriptRegisterSettles
  \/ ScriptRecordsSettle
  \/ ScriptReverseSettles

\* ------------------------------------------------------------------------
\* Specifications
\* ------------------------------------------------------------------------

AppIdle ==
  VerifyIdle /\ NodeIdle /\ LibIdle /\ finished = << >> /\ QueryIdle /\ RegisterIdle

ToolsIdle == ScriptIdle /\ WrapperIdle /\ PricingIdle /\ CheckIdle

Init == VerifyInit /\ NodeIdle /\ LibIdle /\ finished = << >> /\ QueryIdle /\ RegisterIdle /\ ToolsIdle

Next == VerifyNext

Spec == Init /\ [][Next]_vars

InitNode == NodeInit /\ VerifyIdle /\ LibIdle /\ finished = << >> /\ QueryIdle /\ RegisterIdle /\ ToolsIdle

NodeSpec == InitNode /\ [][NodeNext]_vars

InitLib == LibInit /\ VerifyIdle /\ NodeIdle /\ finished = << >> /\ QueryIdle /\ RegisterIdle /\ ToolsIdle

LibSpec == InitLib /\ [][LibNext]_vars

InitPair == PairInit /\ NodeIdle /\ LibIdle /\ QueryIdle /\ RegisterIdle /\ ToolsIdle

PairSpec == InitPair /\ [][PairNext]_vars

InitQuery == QueryInit /\ NodeIdle /\ LibIdle /\ finished = << >> /\ RegisterIdle /\ ToolsIdle

QuerySpec == InitQuery /\ [][QueryNext]_vars

InitForm ==
  FormInit /\ NodeIdle /\ LibIdle /\ finished = << >> /\ QueryIdle /\ ToolsIdle

FormSpec == InitForm /\ [][FormNext]_vars

InitRegister ==
  RegisterInit /\ NodeIdle /\ LibIdle /\ finished = << >> /\ QueryIdle /\ ToolsIdle

\* Every promise settles and the timer fires; the user may never click.
RegisterSpec ==
  InitRegister /\ [][RegisterNext]_vars /\ WF_vars(RegisterSettles)

AttemptsSpec == InitRegister /\ [][AttemptsNext]_vars

InitNames ==
  NamesInit /\ NodeIdle /\ LibIdle /\ finished = << >> /\ QueryIdle /\ ToolsIdle

NamesSpec == InitNames /\ [][AttemptsNext]_vars

InitScript == ScriptInit /\ AppIdle /\ WrapperIdle /\ PricingIdle /\ CheckIdle

ScriptSpec == InitScript /\ [][ScriptNext]_vars

InitWrapper == WrapperInit /\ AppIdle /\ ScriptIdle /\ PricingIdle /\ CheckIdle

WrapperSpec == InitWrapper /\ [][WrapperNext]_vars

InitPricing == PricingInit /\ AppIdle /\ ScriptIdle /\ WrapperIdle /\ CheckIdle

PricingSpec == InitPricing /\ [][PricingNext]_vars

InitPanels ==
  /\ QueryInit /\ CheckInit
  /\ NodeIdle /\ LibIdle /\ finished = << >> /\ RegisterIdle
  /\ ScriptIdle /\ WrapperIdle /\ PricingIdle

PanelsSpec == InitPanels /\ [][PanelsNext]_vars

\* ------------------------------------------------------------------------
\* Properties of verifyBasenameRecords
\* ------------------------------------------------------------------------

StandardKeys ==
  { "addr", "avatar", "description", "display", "email", "keywords", "mail",
    "notice", "location", "phone", "url", "com.github", "com.peepeth",
    "com.linkedin", "com.twitter", "io.keybase", "org.telegram" }

StandardTextKeys == StandardKeys \ { "addr" }

Returning == pc = "done"

\* The requests issued for one lookup: a function name and, for text, a key.
IssuedFor(fn, key) ==
  { n \in 1..Len(calls) :
      /\ calls[n].functionName = fn
      /\ fn = "text" => calls[n].args[2] = key }

Settled(fn, key) == \E n \in IssuedFor(fn, key) : n <= Len(replies)

ReplyTo(fn, key) == replies[CHOOSE n \in IssuedFor(fn, key) : n <= Len(replies)]

NonZeroAddress(v) == v \notin { ZERO_ADDRESS, Null, Undefined, "" }

AllEmptyShape(res) ==
  /\ DOMAIN res.records = StandardKeys
  /\ Cardinality(DOMAIN res.records) = 17
  /\ \A k \in StandardKeys : res.records[k].status = "empty"
  /\ res.summary = [ set |-> 0, empty |-> 17, error |-> 0, total |-> 17, percentage |-> 0 ]

\* C1: when the registry returns the zero address as owner, the call returns
\* at once: all 17 keys are 'empty', the summary is {0, 17, 0, 17, 0}, owner
\* and resolver are null, and the owner lookup is the only lookup issued.
C1_ZeroOwnerShortCircuits ==
  ( /\ Settled("owner", Null)
    /\ ReplyTo("owner", Null).ok
    /\ ReplyTo("owner", Null).value = ZERO_ADDRESS )
  => /\ Returning
     /\ AllEmptyShape(result)
     /\ result.owner = Null
     /\ result.resolver = Null
     /\ IssuedFor("resolver", Null) = {}
     /\ IssuedFor("addr", Null) = {}
     /\ \A k \in StandardKeys : IssuedFor("text", k) = {}

C1_Witness ==
  /\ Returning
  /\ Settled("owner", Null)
  /\ ReplyTo("owner", Null).ok
  /\ ReplyTo("owner", Null).value = ZERO_ADDRESS
  /\ result.summary.empty = 17

StatusOfReply(out) ==
  IF ~out.ok THEN "error"
  ELSE IF out.value \in { "", Null, Undefined } THEN "empty"
  ELSE "set"

\* A record once written is left as it is by every later step.
RecordsStable ==
  \A k \in DOMAIN records : k \in DOMAIN records' /\ records'[k] = records[k]

\* C2: past the registry lookups the call never throws and returns a result
\* whatever the per-key lookups do; the status of a text key is a function
\* of that key's own lookup outcome, and a record once written is not
\* changed by the lookups of other keys.
C2_PerKeyIsolation ==
  /\ [](pc = "thrown" => calls = << >>)
  /\ []( (\A k \in StandardTextKeys : Settled("text", k))
          => /\ Returning
             /\ DOMAIN result.records = StandardKeys
             /\ result.records = records )
  /\ [](\A k \in (DOMAIN records) \ { "addr" } :
          /\ Settled("text", k)
          /\ records[k].status = StatusOfReply(ReplyTo("text", k)))
  /\ [][RecordsStable]_vars

C2_Witness ==
  /\ Returning
  /\ \E k1, k2, k3 \in StandardTextKeys :
       /\ Settled("text", k1) /\ ~ReplyTo("text", k1).ok
       /\ result.records[k1].status = "error"
       /\ result.records[k2].status = "set"
       /\ result.records[k3].status = "empty"

\* C3: a text key's record is {set, the string} for a lookup that returned a
\* non-empty string, {empty, null} for one that returned an empty or absent
\* value, and {error, null, message} for one that failed; nothing else.
C3_TextRecordShape ==
  \A k \in (DOMAIN records) \ { "addr" } :
    LET out == ReplyTo("text", k)
        rec == records[k]
    IN  /\ k \in StandardTextKeys
        /\ Settled("text", k)
        /\ (out.ok /\ out.value \notin { "", Null, Undefined })
             => rec = [ status |-> "set", value |-> out.value ]
        /\ (out.ok /\ out.value \in { "", Null, Undefined })
             => rec = [ status |-> "empty", value |-> Null ]
        /\ ~out.ok
             => /\ DOMAIN rec = { "status", "value", "error" }
                /\ rec.status = "error"
                /\ rec.value = Null
                /\ rec.error \notin { Null, Undefined }
                /\ rec.error = IF out.isError THEN out.message ELSE "Unknown error"

C3_Witness ==
  /\ Returning
  /\ \E k1, k2, k3 \in StandardTextKeys :
       /\ Settled("text", k1) /\ ~ReplyTo("text", k1).ok
       /\ "error" \in DOMAIN result.records[k1]
       /\ Settled("text", k2) /\ ReplyTo("text", k2).ok
       /\ result.records[k2] = [ status |-> "set", value |-> ReplyTo("text", k2).value ]
       /\ Settled("text", k3) /\ ReplyTo("text", k3).value = Undefined
       /\ result.records[k3] = [ status |-> "empty", value |-> Null ]

\* C4: in a returned result the addr record is 'set' exactly when the addr
\* lookup succeeded with a non-zero address, is {empty, null} otherwise
\* (zero address, failed lookup, no lookup), and never has status 'error'.
C4_AddrNeverError ==
  Returning =>
    LET rec == result.records["addr"]
        found == /\ Settled("addr", Null)
                 /\ ReplyTo("addr", Null).ok
                 /\ NonZeroAddress(ReplyTo("addr", Null).value)
    IN  /\ rec.status # "error"
        /\ rec.status = "set" <=> found
        /\ found => rec = [ status |-> "set", value |-> ReplyTo("addr", Null).value ]
        /\ ~found => rec = [ status |-> "empty", value |-> Null ]

C4_Witness ==
  /\ Returning
  /\ Settled("addr", Null)
  /\ ~ReplyTo("addr", Null).ok
  /\ result.records["addr"].status = "empty"
  /\ \E k \in StandardTextKeys : result.records[k].status = "error"

\* C5: a failure of the owner lookup or of the resolver lookup is not raised;
\* the call returns the all-empty result of an unregistered name, with owner
\* and resolver null, also when the owner had been read before.
C5_RegistryFailureDowngraded ==
  ( \/ Settled("owner", Null) /\ ~ReplyTo("owner", Null).ok
    \/ Settled("resolver", Null) /\ ~ReplyTo("resolver", Null).ok )
  => /\ Returning
     /\ AllEmptyShape(result)
     /\ result.owner = Null
     /\ result.resolver = Null
     /\ result.addressRecord = Null
     /\ Len(calls) = Len(replies)

C5_Witness ==
  /\ Returning
  /\ Settled("owner", Null)
  /\ NonZeroAddress(ReplyTo("owner", Null).value)
  /\ Settled("resolver", Null)
  /\ ~ReplyTo("resolver", Null).ok
  /\ result.owner = Null

\* C6: with a non-zero owner and the zero address as resolver the call
\* returns the all-empty result with the owner read from the registry and
\* resolver null, and issues no addr or text lookup.
C6_NoResolverShortCircuits ==
  ( /\ Settled("owner", Null)
    /\ ReplyTo("owner", Null).ok
    /\ NonZeroAddress(ReplyTo("owner", Null).value)
    /\ Settled("resolver", Null)
    /\ ReplyTo("resolver", Null).ok
    /\ ReplyTo("resolver", Null).value = ZERO_ADDRESS )
  => /\ Returning
     /\ AllEmptyShape(result)
     /\ result.owner = ReplyTo("owner", Null).value
     /\ result.resolver = Null
     /\ IssuedFor("addr", Null) = {}
     /\ \A k \in StandardKeys : IssuedFor("text", k) = {}

C6_Witness ==
  /\ Returning
  /\ Settled("resolver", Null)
  /\ ReplyTo("resolver", Null).ok
  /\ ReplyTo("resolver", Null).value = ZERO_ADDRESS
  /\ result.owner = OwnerAddress

NumberWithStatus(res, st) ==
  Cardinality({ k \in StandardKeys : k \in DOMAIN res.records /\ res.records[k].status = st })

\* C7: every returned result has exactly the 17 standard keys, its summary
\* counts are the numbers of records with each status (addr included),
\* total is 17 and set + empty + error = 17.
C7_SummaryCounts ==
  Returning =>
    /\ DOMAIN result.records = StandardKeys
    /\ result.summary.set = NumberWithStatus(result, "set")
    /\ result.summary.empty = NumberWithStatus(result, "empty")
    /\ result.summary.error = NumberWithStatus(result, "error")
    /\ result.summary.total = 17
    /\ result.summary.set + result.summary.empty + result.summary.error = 17

C7_Witness ==
  /\ Returning
  /\ result.records["addr"].status = "set"
  /\ result.summary.set = 12
  /\ result.summary.error = 2
  /\ result.summary.empty = 3

\* C8: the percentage of every returned result is the integer nearest to
\* set * 100 / 17: 0 for set = 0, 59 for set = 10, 100 for set = 17, and
\* between 0 and 100.
C8_Percentage ==
  Returning =>
    LET p == result.summary.percentage
        n == result.summary.set
    IN  /\ p \in 0..100
        /\ 2 * (100 * n - 17 * p) <= 17
        /\ 2 * (17 * p - 100 * n) < 17
        /\ n = 0 => p = 0
        /\ n = 10 => p = 59
        /\ n = 17 => p = 100

C8_Witness ==
  /\ Returning
  /\ result.summary = [ set |-> 10, empty |-> 5, error |-> 2, total |-> 17, percentage |-> 59 ]

\* C9: no lookup is issued twice in one call: at most one owner, one
\* resolver and one addr lookup and at most one text lookup per key, and no
\* request follows a failed request for the same lookup.
C9_NoRetry ==
  /\ Cardinality(IssuedFor("owner", Null)) <= 1
  /\ Cardinality(IssuedFor("resolver", Null)) <= 1
  /\ Cardinality(IssuedFor("addr", Null)) <= 1
  /\ \A k \in StandardKeys : Cardinality(IssuedFor("text", k)) <= 1
  /\ \A m, n \in 1..Len(calls) : m # n => calls[m] # calls[n]
  /\ Len(calls) <= 19

C9_Witness ==
  /\ Returning
  /\ Len(calls) = 19
  /\ \E k \in StandardTextKeys : ~ReplyTo("text", k).ok
  /\ ~ReplyTo("addr", Null).ok

\* ------------------------------------------------------------------------
\* Properties of calculateSubnameNode
\* ------------------------------------------------------------------------

\* hash(parentNode ++ hash(label)): the label hashed as the string it is.
NodeOfLabel(lbl, parent) == keccak256(parent \o keccak256(stringToBytes(lbl)))

\* C10: every copy of calculateSubnameNode returns
\* hash(parentNode ++ hash(label)), parent node first and label hash second,
\* all copies return the same node, and the label is hashed as given, not
\* normalized: a label that differs from its normal form gets another node.
C10_NodeIsHashOfParentAndLabel ==
  \A c \in DOMAIN derived :
    /\ derived[c] = NodeOfLabel(label, rootNode)
    /\ \A d \in DOMAIN derived : derived[d] = derived[c]
    /\ label # normalize(label) => derived[c] # NodeOfLabel(normalize(label), rootNode)

\* What the copies do compute: the parent node followed by the hash of
\* toBytes(label), the same in every copy; this is the node of C10 for every
\* label that is not of the form 0x<hex digits>.
NodeAsCoded ==
  \A c \in DOMAIN derived :
    /\ derived[c] = keccak256(rootNode \o keccak256(toBytes(label)))
    /\ \A d \in DOMAIN derived : derived[d] = derived[c]
    /\ ~isHex(label) => derived[c] = NodeOfLabel(label, rootNode)

\* ------------------------------------------------------------------------
\* Properties of the validation library
\* ------------------------------------------------------------------------

\* The call of the function has returned (or thrown).
Called(name) == callee = name /\ ret # << >>

\* A value that is empty or consists of white space only.
WhitespaceOnly(value) == \A n \in 1..Len(value) : value[n] \in WhiteSpace

\* C11: validateRecord(key, value) returns { valid: true }, with no error,
\* for every key whenever value is empty or consists of white space only.
C11_BlankIsValid ==
  (Called("validateRecord") /\ WhitespaceOnly(args[2]))
    => ret[1] = [ valid |-> TRUE ]

C11_Witness ==
  /\ Called("validateRecord")
  /\ args = << "email", << " ", "\t" >> >>
  /\ ret[1] = [ valid |-> TRUE ]

\* The entries of an object handed to validateRecords on which
\* validateRecord returns an invalid result.
InvalidEntries(obj) ==
  { n \in 1..Len(obj) :
      LET res == validateRecord(obj[n][1], obj[n][2])
      IN  ~Throws(res) /\ ~res.valid }

CalledOnNonBlank(keys) ==
  /\ Called("validateRecord")
  /\ args[1] \in keys
  /\ ~WhitespaceOnly(args[2])

\* An invalid result carries an error message.
InvalidWithMessage(res) ==
  ~res.valid => ("error" \in DOMAIN res /\ Truthy(res.error))

\* '+' followed by between 2 and 15 decimal digits, the first of them 1-9.
PlusAndDigits(v) ==
  \E n \in 2..15 :
    /\ Len(v) = n + 1
    /\ v[1] = "+"
    /\ v[2] \in { "1", "2", "3", "4", "5", "6", "7", "8", "9" }
    /\ \A m \in 3..(n + 1) :
         v[m] \in { "0", "1", "2", "3", "4", "5", "6", "7", "8", "9" }

\* C13 as stated: validateRecord('phone', v), for a non-blank v, is valid if
\* and only if v is '+' followed by between 2 and 15 decimal digits whose
\* first digit is 1-9, and an invalid result carries an error message.
C13_PhoneIsPlusAndDigits ==
  CalledOnNonBlank({ "phone" }) =>
    /\ ret[1].valid <=> PlusAndDigits(args[2])
    /\ InvalidWithMessage(ret[1])

\* C13 amended: validateRecord('phone', v), for a non-blank v, is valid if
\* and only if v with the white space around it removed is '+' followed by
\* between 2 and 15 decimal digits whose first digit is 1-9, and an invalid
\* result carries an error message.
C13_TrimmedPhoneIsPlusAndDigits ==
  CalledOnNonBlank({ "phone" }) =>
    /\ ret[1].valid <=> PlusAndDigits(trim(args[2]))
    /\ InvalidWithMessage(ret[1])

C13_Witness ==
  /\ CalledOnNonBlank({ "phone" })
  /\ args[2] = << " ", "+", "1", "2", " " >>
  /\ ret[1].valid

\* v starts with 'http://' or 'https://'.
StartsWithHttp(v) ==
  \/ Len(v) >= 7 /\ SubSeq(v, 1, 7) = << "h", "t", "t", "p", ":", "/", "/" >>
  \/ Len(v) >= 8
       /\ SubSeq(v, 1, 8) = << "h", "t", "t", "p", "s", ":", "/", "/" >>

\* v starts with 'http://' or 'https://' in any letter case and goes on
\* with a character that is not a line break.
StartsWithHttpAndMore(v) ==
  \E n \in { 7, 8 } :
    /\ Len(v) > n
    /\ [ m \in 1..n |-> Canonicalize(v[m]) ] \in
         { << "h", "t", "t", "p", ":", "/", "/" >>,
           << "h", "t", "t", "p", "s", ":", "/", "/" >> }
    /\ v[n + 1] \notin { "\n", "\r" }

\* C14 as stated: validateRecord('url', v) and validateRecord('avatar', v),
\* for a non-blank v, are valid if and only if v starts with 'http://' or
\* 'https://'.
C14_UrlStartsWithHttp ==
  CalledOnNonBlank({ "url", "avatar" }) =>
    (ret[1].valid <=> StartsWithHttp(args[2]))

\* C14 amended: validateRecord('url', v) and validateRecord('avatar', v),
\* for a non-blank v, are valid if and only if v with the white space around
\* it removed starts with 'http://' or 'https://', in any letter case,
\* followed by at least one character that is not a line break.
C14_TrimmedUrlStartsWithHttpAndMore ==
  CalledOnNonBlank({ "url", "avatar" }) =>
    (ret[1].valid <=> StartsWithHttpAndMore(trim(args[2])))

C14_Witness ==
  /\ CalledOnNonBlank({ "url", "avatar" })
  /\ args = << "avatar", << "H", "t", "t", "p", "s", ":", "/", "/", "x" >> >>
  /\ ret[1].valid

\* The category the documentation gives each standard key.
CategoryOf(key) ==
  CASE key \in { "avatar", "display", "keywords" } -> "profile"
    [] key \in { "email", "phone", "location" } -> "contact"
    [] key \in { "com.github", "com.peepeth", "com.linkedin", "com.twitter",
                 "io.keybase", "org.telegram" } -> "social"
    [] key \in { "addr", "description", "mail", "notice", "url" } -> "other"

\* C15: getRecordCategory is a total function on the 17 standard keys:
\* avatar, display, keywords -> profile; email, phone, location -> contact;
\* the six keys with prefix com., org. or io. -> social; addr, description,
\* mail, notice, url -> other.
C15_CategoryOfStandardKey ==
  (Called("getRecordCategory") /\ args[1] \in StandardKeys)
    => ret[1] = CategoryOf(args[1])

C15_Witness ==
  /\ Called("getRecordCategory")
  /\ args[1] = "location"
  /\ ret[1] = "contact"

\* How often key occurs in the sequence bucket.
Occurrences(bucket, key) ==
  Cardinality({ n \in 1..Len(bucket) : bucket[n] = key })

\* C16: getRecordsByCategory() returns four buckets that partition the 16
\* standard keys other than addr: every such key is in exactly one bucket,
\* the bucket getRecordCategory gives it, addr is in none, the buckets hold
\* 16 keys in total, and within a bucket the keys keep the order they have
\* in STANDARD_ENS_KEYS.
C16_BucketsPartitionTextKeys ==
  Called("getRecordsByCategory") =>
    LET buckets == ret[1]
        names == { "profile", "contact", "social", "other" }
    IN  /\ DOMAIN buckets = names
        /\ \A key \in StandardTextKeys :
             /\ Occurrences(buckets[getRecordCategory(key)], key) = 1
             /\ \A b \in names \ { getRecordCategory(key) } :
                  Occurrences(buckets[b], key) = 0
        /\ \A b \in names : Occurrences(buckets[b], "addr") = 0
        /\ Len(buckets.profile) + Len(buckets.contact)
             + Len(buckets.social) + Len(buckets.other) = 16
        /\ \A b \in names :
             buckets[b] =
               SelectSeq(STANDARD_ENS_KEYS,
                         LAMBDA key : key # "addr" /\ CategoryOf(key) = b)

C16_Witness ==
  /\ Called("getRecordsByCategory")
  /\ ret[1].social = << "com.github", "com.peepeth", "com.linkedin",
                        "com.twitter", "io.keybase", "org.telegram" >>
  /\ ret[1].other = << "description", "mail", "notice", "url" >>

\* ------------------------------------------------------------------------
\* Properties of verifyBasenameRecords called twice
\* ------------------------------------------------------------------------

\* C17: for every label L, verifyBasenameRecords(L) and
\* verifyBasenameRecords(L + '.basetest.eth') derive the same node and,
\* against the same chain state, return the same owner, resolver, records
\* and summary (and the one throws exactly when the other does).
C17_LabelAndFullNameAgree ==
  (finished # << >> /\ pc \in { "done", "thrown" }) =>
    LET first == finished[1]
    IN  /\ basename = first.basename \o << "." >> \o PARENT_DOMAIN
        /\ pc = first.pc
        /\ pc = "done" =>
             /\ node = first.node
             /\ result.node = first.result.node
             /\ result.owner = first.result.owner
             /\ result.resolver = first.result.resolver
             /\ result.addressRecord = first.result.addressRecord
             /\ result.records = first.result.records
             /\ result.summary = first.result.summary

C17_Witness ==
  /\ finished # << >>
  /\ pc = "done"
  /\ finished[1].basename = << "A", "l" >>
  /\ result.owner = OwnerAddress
  /\ result.summary.set > 0
  /\ result.summary.error = 1
  /\ result.records = finished[1].result.records

\* ------------------------------------------------------------------------
\* Properties of the Query tab
\* ------------------------------------------------------------------------

\* The record keys a result of the Query tab reports on: the keys of its
\* records, and addr through addressRecord.
ReportedKeys(data) == DOMAIN data.records \cup { "addr" }

\* C18: for a basename that has an owner and a resolver, the result the
\* Query tab's handler produces reports on each of the 17 standard record
\* keys.
C18_QueryReportsAllStandardKeys ==
  (/\ query.pc = "idle"
   /\ query.result # << >>
   /\ NonZeroAddress(query.result[1].owner)
   /\ NonZeroAddress(query.result[1].resolver))
    => StandardKeys \subseteq ReportedKeys(query.result[1])

\* ------------------------------------------------------------------------
\* Properties of the registration form
\* ------------------------------------------------------------------------

\* The current value of a validated field of the form: the address input
\* for addr, the additional record's input otherwise ('' while untouched).
FieldValue(key) ==
  IF key = "addr" THEN register.addressToSet
  ELSE IF key \in DOMAIN register.additionalRecords
  THEN register.additionalRecords[key]
  ELSE << >>

ValidatedFields == { "addr" } \cup Range(additionalRecordKeys)

\* C19: after any sequence of edits to the address field and the
\* additional-record fields, validationErrors contains key k exactly when
\* the current value of field k fails validateRecord, and the Register
\* button is disabled whenever validationErrors is not empty.
C19_ErrorsTrackFields ==
  /\ DOMAIN register.validationErrors =
       { k \in ValidatedFields : ~validateRecord(k, FieldValue(k)).valid }
  /\ register.validationErrors # EmptyObject => disabled

C19_Witness ==
  /\ register.edits = 2
  /\ register.isConnected
  /\ register.name # << >>
  /\ register.addressToSet = << "0", "x" >> \o Repeat("a", 40)
  /\ DOMAIN register.validationErrors = { "email" }
  /\ disabled

\* The registration transaction started by handleRegister is confirmed.
RegistrationConfirmed == register.isRegisterSuccess

\* verifyBasenameRecords has been called with the full name, its result is
\* in verificationResult and isVerifying is false again.
VerificationShown ==
  /\ register.verified = << fullName >>
  /\ register.verificationResult # << >>
  /\ ~register.isVerifying

\* C20: whenever the registration transaction started by handleRegister is
\* confirmed, verifyBasenameRecords is eventually invoked for the full name,
\* its result is stored in verificationResult, and isVerifying eventually
\* returns to false.
C20_VerificationFollowsRegistration ==
  RegistrationConfirmed ~> VerificationShown

\* ------------------------------------------------------------------------
\* Properties of the registration script
\* ------------------------------------------------------------------------

Transactions(functionName) ==
  { n \in 1..Len(script.calls) :
      /\ script.calls[n].kind = "write"
      /\ script.calls[n].functionName = functionName }

\* C21: registerBasenameWithRecords registers the name and sets its
\* address and text records in one transaction: every register transaction
\* it sends carries in its request the setAddr and setText calls for the
\* records it was given, and it sends no second transaction to set them.
C21_RecordsSetByRegisterTransaction ==
  /\ \A n \in Transactions("register") :
       Truthy(script.addressToSet) =>
         script.calls[n].args[1].data =
           buildResolverData(script.subnameNode, script.addressToSet,
                             script.textRecords)
  /\ Transactions("multicall") = {}

\* The call of the script with the given function is settled with reply.
Answered(kind, functionName, reply) ==
  \E n \in 1..Len(script.replies) :
    /\ script.calls[n].kind = kind
    /\ script.calls[n].functionName = functionName
    /\ script.replies[n] = reply

\* C28: every transaction of registerBasenameWithRecords comes after
\* available(name) returned true and, after that, the simulation of the
\* register call passed; when the name is not available or the simulation
\* fails the function throws and has sent no transaction.
C28_RegisterOnlyAfterAvailableAndSimulated ==
  /\ \A n \in 1..Len(script.calls) :
       script.calls[n].kind = "write" =>
         \E i \in 1..(n - 1) : \E j \in (i + 1)..(n - 1) :
           /\ script.calls[i].functionName = "available"
           /\ script.replies[i] = "true"
           /\ script.calls[j].kind = "simulate"
           /\ script.calls[j].functionName = "register"
           /\ script.replies[j] = "passed"
  /\ \/ Answered("read", "available", "false")
     \/ Answered("simulate", "register", "throws")
     => /\ script.outcome = "threw"
        /\ \A n \in 1..Len(script.calls) : script.calls[n].kind # "write"

\* A run whose register transaction went out.
C28_Witness == Answered("write", "register", "sent")

\* ------------------------------------------------------------------------
\* Properties of the secure deployment wrapper
\* ------------------------------------------------------------------------

\* C22: while autark deploy runs for the wrapper, out/ holds no
\* secure-deploy.config.json, neither a regular file nor a symlink.
C22_NoConfigInOutDuringDeploy ==
  wrapper.pc = "deploying" => wrapper.out = "none"

\* C23: when a run of the wrapper that created the symlink or the fallback
\* copy has ended, however it ended, out/secure-deploy.config.json is gone.
C23_ConfigGoneAfterExit ==
  wrapper.pc = "exited" /\ wrapper.created => wrapper.out = "none"

\* ------------------------------------------------------------------------
\* Properties of the registration form's attempts
\* ------------------------------------------------------------------------

\* C24: isRegisterSuccess is true only if the receipt of the registration
\* transaction has status success, and isRecordsSuccess is true only if
\* the receipt of the records transaction has status success.
C24_SuccessFlagsNeedSuccessReceipts ==
  /\ register.isRegisterSuccess => register.registerReceipt = "success"
  /\ register.isRecordsSuccess => register.recordsReceipt = "success"

\* C26: in every state reached by registration attempts, isRecordsSuccess
\* implies isRegisterSuccess.
C26_RecordsSuccessNeedsRegisterSuccess ==
  register.isRecordsSuccess => register.isRegisterSuccess

\* C25: the value attached to a register transaction for a name is the
\* registerPrice the contract returns for that name, or 0; it is never a
\* price fetched for another name.
C25_ValueIsPriceOfNameSent ==
  \A n \in 1..Len(pricing.sent) :
    pricing.sent[n].value \in { registerPrice(pricing.sent[n].name), "0" }

\* C27: the node that the form's verification queries is the node that
\* handleSetRecords wrote the records to.
C27_VerifiedNodeIsWrittenNode ==
  (register.pc = "verify.call" /\ node # << >>) => node = register.subnameNode

\* ------------------------------------------------------------------------
\* Properties of the Query and Check Availability tabs
\* ------------------------------------------------------------------------

\* C29: in the Query and the Check Availability components at most one of
\* result and error is non-null, and when no handler is running loading is
\* false.
C29_ResultOrErrorNotBoth ==
  /\ ~(query.result # << >> /\ query.error # Null)
  /\ ~(check.result # << >> /\ check.error # Null)
  /\ query.pc = "idle" => ~query.loading
  /\ check.pc = "idle" => ~check.loading

====
